---- MODULE Spec2Model ----
(***************************************************************************)
(* Emulearner: the sandboxed, step-synchronized execution of a student     *)
(* script against the emulator.                                            *)
(*                                                                         *)
(*   worker  (inline worker of CodeSandbox.getWorkerCode): executeCode,    *)
(*           requestStep, createGameAPI, self.onmessage                    *)
(*   host    CodeSandbox (handleWorkerMessage, handleStepRequest,          *)
(*           handleStateRequest), GameController, EmulatorBridge.stepFrame *)
(*   engine  ChallengeEngine.runChallenge                                  *)
(*                                                                         *)
(* The two contexts talk only through the two postMessage channels, which  *)
(* are FIFO queues.  Every action is one run-to-completion piece of a      *)
(* handler: from the event that starts it to its next await.               *)
(***************************************************************************)
EXTENDS Integers, Sequences, FiniteSets, TLC

(* ------------------------------ bounds --------------------------------- *)

\* API calls one script makes.
MaxScriptOps == 2
\* The larger of the two counts a script passes to stepFrames.
LongSteps == 6
\* The larger of the two frame budgets of a challenge.
BigBudget == 7
\* Frames the main loop may run before a stepFrame poll sees the first.
MaxAdvance == 2
\* Ticks a script holds a button for.
HoldTicks == 2
\* Frames the main loop may run while no stepFrame is in flight.
MaxFreeTicks == 1
\* Bytes of the emulator's heap (HEAPU8).
HeapLen == 6

(* -------------------------- program constants -------------------------- *)

\* onStep looks at the goal on every 10th emulator frame.
SampleEvery == 10
\* Lesson 1 (Move Right): goal state.x > 500 within 600 frames.
LessonGoalX == 500
LessonMaxFrames == 600

\* ... and its starter code: press('right'), then stepFrames(100).
LessonSteps == 100

Buttons == {"right"}
VarNames == {"x"}
BudgetError == "Maximum frames exceeded"
NotFoundError == "Variable not found"
ScriptError == "script error"
TypeErrorMsg == "Cannot set properties of null"
NoExecutionError == "No execution in progress"
TerminatedError == "Execution terminated"
InProgressError == "Another execution is already in progress"
WorkerErrorMsg == "Unknown worker error"

\* discoverWorkRamBase: the two markers, the lives value it restores, and
\* the largest zone number it takes for plausible.
MARKER1 == 167
MARKER2 == 83
DEFAULT_LIVES == 3
MaxZone == 20
\* The layout of work RAM, scaled down: the lives byte at LIVES_OFFSET
\* (0xFE12), the zone byte two below it (0xFE10), the last byte of the
\* region (0xFFFF); data.json addresses start at the console's RAM base
\* (0xFF0000).
LIVES_OFFSET == 2
ZONE_OFFSET == 0
RamLast == 3
ConsoleRamBase == 16
\* What JavaScript gives for a byte that is not there.
Undefined == 0 - 2^30

StartFrames == {0, 9}
Budgets == {1, BigBudget}
StepCounts == {2, LongSteps}
GoalXs == {0}
\* stepFrame calls runChallenge makes before it executes the script: one
\* after loadState (a challenge with an initialState), three in discovery
\* (memory not yet discovered).
PreludeCounts == {0, 1, 3, 4}

VARIABLES
  \* the challenge and the script (inputs)
  maxFrames, goalX, xRate, plan, preLeft,
  \* the emulator (GameManager): frame counter, main loop, memory, input
  emuFrame, emuRunning, emuX, emuInput, freeLeft,
  \* GameController.heldButtons
  heldButtons,
  \* CodeSandbox (host side): currentExecution set, stepFrame calls in flight
  hostExec, stepTasks,
  \* the postMessage channels
  toHost, toWorker,
  \* the worker: currentExecution, messageId, pendingRequests, the script
  wCur, wMsgId, pending, wPc, loopLeft,
  \* ChallengeEngine.runChallenge
  rcPc, status, goalMet, goalFrame, execResult, result,
  \* history: the step responses the session has consumed; the stepFrames
  \* call in progress (its count, and frameNumber less its own iterations)
  consumed, loop,
  \* a second runChallenge call on the same engine (its locals and result),
  \* the script it executes, ChallengeEngine.currentChallenge, and the
  \* stop() and reset() calls made so far
  run2, w2Pc, currentChallenge, calls,
  \* the emulator's heap, the value its active cheat writes to the lives
  \* byte (0: no cheat), and where the core keeps work RAM, which offsets of
  \* it the cheat system patches and which cell the game writes (an input)
  heap, cheat, layout,
  \* discoverWorkRamBase: its locals and progress; MemoryReader: dataJson,
  \* memoryOffset and the outcome of the last call; history: the outcome
  \* of each discovery so far
  disc, reader, found

inputVars == <<maxFrames, goalX, xRate>>
emuVars == <<emuFrame, emuRunning, emuX, emuInput, freeLeft>>
workerVars == <<wCur, wMsgId, pending, wPc, loopLeft>>
engineVars == <<rcPc, status, goalMet, goalFrame, execResult, result>>
histVars == <<consumed, loop>>
sessVars == <<run2, w2Pc, currentChallenge, calls>>
memVars == <<heap, cheat, layout, disc, reader, found>>
vars == <<inputVars, plan, preLeft, emuVars, heldButtons, hostExec, stepTasks,
          toHost, toWorker, workerVars, engineVars, histVars, sessVars,
          memVars>>

(* ------------------------------ values --------------------------------- *)

EmptyState == [n \in {} |-> 0]

\* The worker's currentExecution = null.
NoExec ==
  [live |-> FALSE, frameNumber |-> 0, framesExecuted |-> 0, maxFrames |-> 0,
   currentState |-> EmptyState, heldButtons |-> {}, inputQueue |-> <<>>]

\* executeCode: the fresh currentExecution.
NewExec(max) ==
  [live |-> TRUE, frameNumber |-> 0, framesExecuted |-> 0, maxFrames |-> max,
   currentState |-> EmptyState, heldButtons |-> {}, inputQueue |-> <<>>]

NoResult == [set |-> FALSE, completed |-> FALSE, framesExecuted |-> 0, error |-> ""]

NoLoop == [n |-> 0, base |-> 0]

NoChallengeResult ==
  [set |-> FALSE, success |-> FALSE, status |-> "idle", framesUsed |-> 0, error |-> ""]

\* No second runChallenge call yet.
NoRun2 ==
  [pc |-> "idle", execd |-> FALSE, goalMet |-> FALSE, goalFrame |-> 0,
   execResult |-> NoResult, result |-> NoChallengeResult]

\* stop() and reset() calls, and worker onerror events, so far; the buttons
\* the controller held when reset() was called.
NoCalls == [stop |-> FALSE, reset |-> FALSE, onerror |-> FALSE, held |-> {}]

\* discoverWorkRamBase not running; heap1 and heap2 are the heap as the
\* two scans found it (history).
NoDisc ==
  [pc |-> "idle", caller |-> "", marker1Positions |-> {}, matches |-> {},
   heap1 |-> EmptyState, heap2 |-> EmptyState]

\* No MemoryReader call made yet.
NoOut ==
  [call |-> "", name |-> "", ok |-> FALSE, error |-> "",
   value |-> [hi |-> 0, lo |-> 0], state |-> EmptyState, reads |-> 0]

\* "|u1", ">u2", ... as the characters of the string.
TypeSpecOf(e, sg, digit) == <<e, sg, digit>>

\* data.json of the game: x, two bytes big-endian at the start of work RAM.
GameTable ==
  [n \in VarNames |-> [address |-> ConsoleRamBase, type |-> TypeSpecOf(">", "u", "2")]]

Max(a, b) == IF a >= b THEN a ELSE b
Min(a, b) == IF a <= b THEN a ELSE b

(* ----------------------------- emulator -------------------------------- *)

\* The game: x grows while right is held and falls back while it is not.
SimX(x, input) ==
  IF "right" \in input THEN x + xRate ELSE Max(x - xRate, 0)

\* The reader's offset is the one that maps data.json addresses onto the
\* core's work RAM.
OffsetRight == reader.memoryOffset = layout.ramBase - ConsoleRamBase

\* MemoryReader.getState: one entry per mapped variable; with another
\* offset the reads fall outside the heap and give 0.
Snapshot == [n \in VarNames |-> IF OffsetRight THEN emuX ELSE 0]

NoNoise == 0 - 1

\* The heap after one frame of the core: the game may write to the cell
\* layout.noise (a byte that happens to be the second marker), and an
\* active cheat writes its value to the cells the cheat system patches.
NoiseBytes == {MARKER2}

Patched(h) ==
  [i \in DOMAIN h |->
     IF cheat # 0 /\ i - layout.ramBase \in layout.cheatCells THEN cheat ELSE h[i]]

FrameHeaps ==
  IF layout.noise = NoNoise THEN {Patched(heap)}
  ELSE {Patched(heap)} \cup
       {Patched([heap EXCEPT ![layout.noise] = b]) : b \in NoiseBytes}

\* The main loop runs one frame.
EmuTick ==
  /\ emuRunning
  /\ rcPc # "idle"
  /\ IF stepTasks = {} THEN freeLeft > 0
     ELSE \E t \in stepTasks : emuFrame < t.start + MaxAdvance
  /\ freeLeft' = IF stepTasks = {} THEN freeLeft - 1 ELSE freeLeft
  /\ emuFrame' = emuFrame + 1
  /\ emuX' = SimX(emuX, emuInput)
  /\ heap' \in FrameHeaps
  /\ UNCHANGED <<inputVars, cheat, layout, disc, reader, found, sessVars, plan, preLeft, emuRunning, emuInput, heldButtons,
                 hostExec, stepTasks, toHost, toWorker, workerVars, engineVars,
                 histVars>>

(* ---------------------------- controller ------------------------------- *)

\* GameController.press / release / releaseAll applied to (held, input).
ApplyInput(in, st) ==
  CASE in.action = "press" ->
         [held |-> st.held \cup {in.button}, input |-> st.input \cup {in.button}]
    [] in.action = "release" ->
         [held |-> st.held \ {in.button}, input |-> st.input \ {in.button}]
    [] OTHER ->
         [held |-> {}, input |-> st.input \ st.held]

RECURSIVE ApplyInputs_LastFirst(_, _)
\* The inputs applied from the last one to the first.
ApplyInputs_LastFirst(inputs, st) ==
  IF inputs = <<>> THEN st
  ELSE ApplyInputs_LastFirst(SubSeq(inputs, 1, Len(inputs) - 1),
                             ApplyInput(inputs[Len(inputs)], st))

RECURSIVE ApplyInputs(_, _)
\* handleStepRequest's loop over the inputs of the request.
ApplyInputs(inputs, st) ==
  IF inputs = <<>> THEN st
  ELSE ApplyInputs(Tail(inputs), ApplyInput(Head(inputs), st))

(* ------------------------------ script --------------------------------- *)

\* One call of the game API made by the script.
Op(kind, s, n) == [op |-> kind, s |-> s, n |-> n]

\* The script is any program of at most plan.left API calls (plan.free), or
\* the fixed program plan.ops.
CanRun(o) ==
  IF plan.free THEN plan.left > 0
  ELSE plan.ops # <<>> /\ Head(plan.ops) = o

PlanAfter ==
  IF plan.free THEN [plan EXCEPT !.left = @ - 1]
  ELSE [plan EXCEPT !.ops = Tail(@)]

CanReturn == plan.free \/ plan.ops = <<>>

\* The script is running synchronous code between two awaits.
Running == wPc = "run" /\ loopLeft = 0

(* ------------------------------ worker --------------------------------- *)

\* A getter that returns the emulator's frame number of the last response.
FrameNumberGetter_Absolute(cur) == IF cur.live THEN cur.frameNumber ELSE 0

\* get frameNumber() of the game API.
FrameNumberGetter(cur) == IF cur.live THEN cur.framesExecuted ELSE 0

\* requestStep's budget check.
BudgetExhausted(cur) == cur.framesExecuted >= cur.maxFrames

\* requestStep after its await: the response is stored.
StepResumed(cur, resp) ==
  [cur EXCEPT !.frameNumber = resp.frameNumber,
              !.framesExecuted = @ + 1,
              !.currentState = resp.state]

\* A catch block that reports no frames, as the sandbox's 'error' event does.
FailedResult_NoFrames(cur, msg) ==
  [set |-> TRUE, completed |-> FALSE, framesExecuted |-> 0, error |-> msg]

\* executeCode's two results.
CompletedResult(cur) ==
  [set |-> TRUE, completed |-> TRUE, framesExecuted |-> cur.framesExecuted,
   error |-> ""]

FailedResult(cur, msg) ==
  [set |-> TRUE, completed |-> FALSE,
   framesExecuted |-> IF cur.live THEN cur.framesExecuted ELSE 0,
   error |-> msg]

\* The standalone worker module (the worker as a file of its own).  Its
\* currentExecution has no framesExecuted: fed the same responses it holds
\* the same frameNumber, maxFrames, currentState, heldButtons and
\* inputQueue as the inline worker's, and it decides on frameNumber.
\* requestStep's budget check in the module.
ModuleBudgetExhausted(cur) == cur.frameNumber >= cur.maxFrames

\* get frameNumber() in the module.
ModuleFrameNumberGetter(cur) == IF cur.live THEN cur.frameNumber ELSE 0

\* executeCode's two results in the module.
ModuleCompletedResult(cur) ==
  [set |-> TRUE, completed |-> TRUE, framesExecuted |-> cur.frameNumber,
   error |-> ""]

ModuleFailedResult(cur, msg) ==
  [set |-> TRUE, completed |-> FALSE,
   framesExecuted |-> IF cur.live THEN cur.frameNumber ELSE 0,
   error |-> msg]

\* sendRequest: a fresh id, the resolver kept, the message posted.
SendRequest(type, kind, inputs) ==
  /\ wMsgId' = wMsgId + 1
  /\ pending' = pending \cup {[id |-> wMsgId + 1, kind |-> kind]}
  /\ toHost' = Append(toHost, [type |-> type, id |-> wMsgId + 1,
                               inputs |-> inputs, result |-> NoResult])

\* A requestStep that leaves the queue as it is.
SendStep_KeepQueue(kind) ==
  /\ SendRequest("step", kind, wCur.inputQueue)
  /\ wCur' = wCur

\* requestStep up to its await: the queued inputs leave with the request.
SendStep(kind) ==
  /\ SendRequest("step", kind, wCur.inputQueue)
  /\ wCur' = [wCur EXCEPT !.inputQueue = <<>>]

\* executeCode returns and onmessage posts 'complete'.
Settle(res) ==
  /\ toHost' = Append(toHost, [type |-> "complete", id |-> 0,
                               inputs |-> <<>>, result |-> res])
  /\ wCur' = NoExec
  /\ wPc' = "done"

\* self.onmessage 'execute': executeCode up to its first await.
ExecuteCode ==
  /\ toWorker # <<>>
  /\ Head(toWorker).type = "execute"
  /\ wPc = "idle"
  /\ toWorker' = Tail(toWorker)
  /\ wCur' = NewExec(Head(toWorker).maxFrames)
  /\ SendRequest("getState", "init", <<>>)
  /\ wPc' = "waitInit"
  /\ UNCHANGED <<inputVars, memVars, sessVars, plan, preLeft, emuVars, heldButtons, hostExec,
                 stepTasks, loopLeft, engineVars, histVars>>

\* An 'error' event taken for a completed run.
ErrorEvent_Completed(msg) ==
  [type |-> "error", id |-> 0, inputs |-> <<>>,
   result |-> [set |-> TRUE, completed |-> TRUE, framesExecuted |-> 0,
               error |-> msg]]

\* onmessage's catch: executeCode rejected, an 'error' event is posted; the
\* host's 'error' case resolves execute with this result.
ErrorEvent(msg) ==
  [type |-> "error", id |-> 0, inputs |-> <<>>,
   result |-> [set |-> TRUE, completed |-> FALSE, framesExecuted |-> 0,
               error |-> msg]]

\* The script of the second execute is running synchronous code.
Running2 == w2Pc \in {"run", "ran"}

\* executeCode of the second script returns and 'complete' is posted.
Settle2(res) ==
  /\ toHost' = Append(toHost, [type |-> "complete", id |-> 0,
                               inputs |-> <<>>, result |-> res])
  /\ wCur' = NoExec
  /\ w2Pc' = "done"

\* self.onmessage 'step' / 'getState': the response resolves its request,
\* and the code awaiting it runs on.  The code that runs on writes to
\* currentExecution, whichever execute made it; with currentExecution null
\* the write throws: in requestStep into the script, in executeCode (before
\* its try) into onmessage's catch.
WorkerResponse ==
  /\ toWorker # <<>>
  /\ Head(toWorker).type = "step"
  /\ wPc # "run"
  /\ ~Running2
  /\ toWorker' = Tail(toWorker)
  /\ LET m == Head(toWorker)
         hit == {p \in pending : p.id = m.id}
     IN IF hit = {} THEN
          UNCHANGED <<wCur, pending, wPc, loopLeft, toHost, histVars, w2Pc>>
        ELSE
          LET p == CHOOSE q \in hit : TRUE
          IN /\ pending' = pending \ {p}
             /\ CASE p.kind = "init" ->
                       \* executeCode after the getState request.
                       IF wCur.live
                       THEN /\ wCur' = [wCur EXCEPT !.currentState = m.state,
                                                    !.frameNumber = m.frameNumber]
                            /\ wPc' = "run"
                            /\ UNCHANGED <<loopLeft, toHost, histVars, w2Pc>>
                       ELSE /\ toHost' = Append(toHost, ErrorEvent(TypeErrorMsg))
                            /\ wPc' = "done"
                            /\ UNCHANGED <<wCur, loopLeft, histVars, w2Pc>>
                  [] p.kind = "main" ->
                       IF wCur.live
                       THEN /\ wCur' = StepResumed(wCur, m)
                            /\ wPc' = "run"
                            /\ consumed' = consumed + 1
                            /\ loop' = IF loopLeft = 0 THEN NoLoop ELSE loop
                            /\ UNCHANGED <<loopLeft, toHost, w2Pc>>
                       ELSE /\ Settle(FailedResult(wCur, TypeErrorMsg))
                            /\ loopLeft' = 0
                            /\ loop' = NoLoop
                            /\ UNCHANGED <<consumed, w2Pc>>
                  [] p.kind = "init2" ->
                       IF wCur.live
                       THEN /\ wCur' = [wCur EXCEPT !.currentState = m.state,
                                                    !.frameNumber = m.frameNumber]
                            /\ w2Pc' = "run"
                            /\ UNCHANGED <<wPc, loopLeft, toHost, histVars>>
                       ELSE /\ toHost' = Append(toHost, ErrorEvent(TypeErrorMsg))
                            /\ w2Pc' = "done"
                            /\ UNCHANGED <<wCur, wPc, loopLeft, histVars>>
                  [] p.kind = "main2" ->
                       IF wCur.live
                       THEN /\ wCur' = StepResumed(wCur, m)
                            /\ w2Pc' = "ran"
                            /\ UNCHANGED <<wPc, loopLeft, toHost, histVars>>
                       ELSE /\ Settle2(FailedResult(wCur, TypeErrorMsg))
                            /\ UNCHANGED <<wPc, loopLeft, histVars>>
                  [] OTHER ->
                       \* a step() the script did not await: with no
                       \* execution left the assignment throws in a
                       \* promise nobody awaits.
                       /\ wCur' = IF wCur.live THEN StepResumed(wCur, m) ELSE wCur
                       /\ consumed' = IF wCur.live THEN consumed + 1 ELSE consumed
                       /\ loop' = IF wCur.live /\ loop.n > 0
                                  THEN [loop EXCEPT !.base = @ + 1] ELSE loop
                       /\ UNCHANGED <<wPc, loopLeft, toHost, w2Pc>>
  /\ UNCHANGED <<inputVars, memVars, run2, currentChallenge, calls, plan, preLeft,
                 emuVars, heldButtons, hostExec, stepTasks, wMsgId, engineVars>>

scriptFrame == <<inputVars, memVars, sessVars, preLeft, emuVars, heldButtons, hostExec, stepTasks,
                 toWorker, engineVars>>

\* game.press(button)
ScriptPress(b) ==
  /\ Running
  /\ CanRun(Op("press", b, 0))
  /\ plan' = PlanAfter
  /\ wCur' = [wCur EXCEPT !.heldButtons = @ \cup {b},
                          !.inputQueue = Append(@, [action |-> "press", button |-> b])]
  /\ UNCHANGED <<scriptFrame, toHost, wMsgId, pending, wPc, loopLeft, histVars>>

\* game.release(button)
ScriptRelease(b) ==
  /\ Running
  /\ CanRun(Op("release", b, 0))
  /\ plan' = PlanAfter
  /\ wCur' = [wCur EXCEPT !.heldButtons = @ \ {b},
                          !.inputQueue = Append(@, [action |-> "release", button |-> b])]
  /\ UNCHANGED <<scriptFrame, toHost, wMsgId, pending, wPc, loopLeft, histVars>>

\* game.releaseAll()
ScriptReleaseAll ==
  /\ Running
  /\ CanRun(Op("releaseAll", "", 0))
  /\ plan' = PlanAfter
  /\ wCur' = [wCur EXCEPT !.heldButtons = {},
                          !.inputQueue = Append(@, [action |-> "releaseAll", button |-> ""])]
  /\ UNCHANGED <<scriptFrame, toHost, wMsgId, pending, wPc, loopLeft, histVars>>

\* await game.step(), the budget error not caught.
ScriptStep ==
  /\ Running
  /\ CanRun(Op("step", "", 0))
  /\ plan' = PlanAfter
  /\ IF BudgetExhausted(wCur)
     THEN Settle(FailedResult(wCur, BudgetError)) /\ UNCHANGED <<wMsgId, pending>>
     ELSE SendStep("main") /\ wPc' = "waitStep"
  /\ UNCHANGED <<scriptFrame, loopLeft, histVars>>

\* try { await game.step() } catch {}
ScriptTryStep ==
  /\ Running
  /\ CanRun(Op("tryStep", "", 0))
  /\ plan' = PlanAfter
  /\ IF BudgetExhausted(wCur)
     THEN UNCHANGED <<wCur, wPc, toHost, wMsgId, pending>>
     ELSE SendStep("main") /\ wPc' = "waitStep"
  /\ UNCHANGED <<scriptFrame, loopLeft, histVars>>

\* game.step() without await: the request leaves, the script runs on; a
\* budget error rejects a promise nobody awaits.
ScriptStepNoAwait ==
  /\ Running
  /\ CanRun(Op("stepNoAwait", "", 0))
  /\ plan' = PlanAfter
  /\ IF BudgetExhausted(wCur)
     THEN UNCHANGED <<wCur, toHost, wMsgId, pending>>
     ELSE SendStep("detached")
  /\ UNCHANGED <<scriptFrame, wPc, loopLeft, histVars>>

\* await game.tap(b): press(b) now; await step() and release(b) are what
\* the script runs next.
ScriptTap(b) ==
  /\ Running
  /\ ~plan.free
  /\ CanRun(Op("tap", b, 0))
  /\ plan' = [plan EXCEPT !.ops = <<Op("step", "", 0), Op("release", b, 0)>>
                                    \o Tail(@)]
  /\ wCur' = [wCur EXCEPT !.heldButtons = @ \cup {b},
                          !.inputQueue = Append(@, [action |-> "press", button |-> b])]
  /\ UNCHANGED <<scriptFrame, toHost, wMsgId, pending, wPc, loopLeft, histVars>>

\* await game.hold(b, n): press(b) now; await stepFrames(n) and release(b)
\* are what the script runs next.
ScriptHold(b, n) ==
  /\ Running
  /\ ~plan.free
  /\ CanRun(Op("hold", b, n))
  /\ plan' = [plan EXCEPT !.ops = <<Op("stepFrames", "", n), Op("release", b, 0)>>
                                    \o Tail(@)]
  /\ wCur' = [wCur EXCEPT !.heldButtons = @ \cup {b},
                          !.inputQueue = Append(@, [action |-> "press", button |-> b])]
  /\ UNCHANGED <<scriptFrame, toHost, wMsgId, pending, wPc, loopLeft, histVars>>

\* await game.stepFrames(n) (and wait(n)): the loop is entered.
ScriptStepFrames(n) ==
  /\ Running
  /\ CanRun(Op("stepFrames", "", n))
  /\ plan' = PlanAfter
  /\ loopLeft' = n
  /\ loop' = [n |-> n, base |-> wCur.framesExecuted]
  /\ UNCHANGED <<scriptFrame, toHost, wCur, wMsgId, pending, wPc, consumed>>

\* One iteration of the stepFrames loop: await requestStep().
StepFramesIter ==
  /\ wPc = "run"
  /\ loopLeft > 0
  /\ IF BudgetExhausted(wCur)
     THEN /\ Settle(FailedResult(wCur, BudgetError))
          /\ loopLeft' = 0
          /\ loop' = NoLoop
          /\ UNCHANGED <<wMsgId, pending>>
     ELSE /\ SendStep("main")
          /\ wPc' = "waitStep"
          /\ loopLeft' = loopLeft - 1
          /\ UNCHANGED loop
  /\ UNCHANGED <<scriptFrame, plan, consumed>>

\* game.getVariable(name)
ScriptGetVariable(name) ==
  /\ Running
  /\ CanRun(Op("getVariable", name, 0))
  /\ plan' = PlanAfter
  /\ IF name \in DOMAIN wCur.currentState
     THEN UNCHANGED <<wCur, wPc, toHost>>
     ELSE Settle(FailedResult(wCur, NotFoundError))
  /\ UNCHANGED <<scriptFrame, wMsgId, pending, loopLeft, histVars>>

\* game.getState()
ScriptGetState ==
  /\ Running
  /\ CanRun(Op("getState", "", 0))
  /\ plan' = PlanAfter
  /\ UNCHANGED <<scriptFrame, toHost, workerVars, histVars>>

\* throw new Error(...)
ScriptThrow ==
  /\ Running
  /\ CanRun(Op("throw", "", 0))
  /\ plan' = PlanAfter
  /\ Settle(FailedResult(wCur, ScriptError))
  /\ UNCHANGED <<scriptFrame, wMsgId, pending, loopLeft, histVars>>

\* The script returns.
ScriptReturn ==
  /\ Running
  /\ CanReturn
  /\ Settle(CompletedResult(wCur))
  /\ UNCHANGED <<scriptFrame, plan, wMsgId, pending, loopLeft, histVars>>

(* ------------------------- host: CodeSandbox --------------------------- *)

\* A goal that is met already at the threshold: state.x >= goalX.
Goal_AtThreshold(state) == "x" \in DOMAIN state /\ state["x"] >= goalX

\* challenge.goal, the predicate of the lessons: state.x > goalX.
Goal(state) == "x" \in DOMAIN state /\ state["x"] > goalX

\* onStep's cadence: frameNumber % 10 === 0.
ShouldSample(frameNumber) == frameNumber % SampleEvery = 0

\* The goal test of onStep and of the final re-check: the new goalMet.
GoalNow(met, state) == met \/ Goal(state)

\* A goal test without the !goalMet guard: the last match wins.
GoalFrameNow_LastMatch(met, at, state, frame) ==
  IF Goal(state) THEN frame ELSE at

\* ... and the new goalFrame, frame being the tick the caller records.
GoalFrameNow(met, at, state, frame) ==
  IF ~met /\ Goal(state) THEN frame ELSE at

\* The frame number handed to onStep and put in the response.
StepFrameNumber(task) == emuFrame

\* EmulatorBridge.stepFrame up to its first timer: startFrame is read and
\* the main loop resumed.
StepFrameTask(owner, id) ==
  [owner |-> owner, id |-> id, before |-> emuFrame, start |-> emuFrame]

\* A stepFrame that settles and leaves the main loop as it is.
StepFramePause_Skipped == emuRunning

\* stepFrame before it settles: gm.toggleMainLoop(0) and _state = 'paused'
\* (emuRunning is the main loop and _state = 'running' at once: the bridge
\* sets the two together).
StepFramePause == FALSE

\* stepFrame's poll: the frame number has passed startFrame.
FrameAdvanced(task) == emuFrame > task.start

\* A state request answered after one more frame.
HandleStateRequest_Advancing ==
  /\ toHost # <<>>
  /\ Head(toHost).type = "getState"
  /\ toHost' = Tail(toHost)
  /\ emuFrame' = emuFrame + 1
  /\ emuX' = SimX(emuX, emuInput)
  /\ toWorker' = Append(toWorker,
       [type |-> "step", id |-> Head(toHost).id, frameNumber |-> emuFrame',
        state |-> [n \in VarNames |-> emuX'], maxFrames |-> 0])
  /\ UNCHANGED <<inputVars, memVars, sessVars, plan, preLeft, emuRunning, emuInput,
                 freeLeft, heldButtons, hostExec, stepTasks, workerVars,
                 engineVars, histVars>>

\* handleStateRequest
HandleStateRequest ==
  /\ toHost # <<>>
  /\ Head(toHost).type = "getState"
  /\ toHost' = Tail(toHost)
  /\ toWorker' = Append(toWorker,
       [type |-> "step", id |-> Head(toHost).id, frameNumber |-> emuFrame,
        state |-> Snapshot, maxFrames |-> 0])
  /\ UNCHANGED <<inputVars, memVars, sessVars, plan, preLeft, emuVars, heldButtons, hostExec,
                 stepTasks, workerVars, engineVars, histVars>>

\* handleStepRequest up to its await: the inputs are applied in order and
\* stepFrame is started.
HandleStepRequest ==
  /\ toHost # <<>>
  /\ Head(toHost).type = "step"
  /\ toHost' = Tail(toHost)
  /\ LET st == ApplyInputs(Head(toHost).inputs,
                           [held |-> heldButtons, input |-> emuInput])
     IN /\ heldButtons' = st.held
        /\ emuInput' = st.input
  /\ stepTasks' = stepTasks \cup {StepFrameTask("sandbox", Head(toHost).id)}
  /\ emuRunning' = TRUE
  /\ UNCHANGED <<inputVars, memVars, sessVars, plan, preLeft, emuFrame, emuX, freeLeft, hostExec, toWorker,
                 workerVars, engineVars, histVars>>

\* respondToWorker's test of this.worker: null between destroy() and the
\* initialize() of the next execute.
WorkerExists == ~(wPc = "gone" /\ run2.pc = "idle")

\* stepFrame's checkFrame sees the frame advanced and pauses; then the rest
\* of handleStepRequest: onStep (the engine samples the goal) and the
\* response.
CheckFrame(t) ==
  /\ t.owner = "sandbox"
  /\ FrameAdvanced(t)
  /\ emuRunning' = StepFramePause
  /\ stepTasks' = stepTasks \ {t}
  /\ IF hostExec /\ ShouldSample(StepFrameNumber(t))
     THEN IF run2.execd
          THEN /\ run2' = [run2 EXCEPT
                    !.goalMet = GoalNow(@, Snapshot),
                    !.goalFrame = GoalFrameNow(run2.goalMet, @, Snapshot,
                                               StepFrameNumber(t))]
               /\ UNCHANGED <<goalMet, goalFrame>>
          ELSE /\ goalMet' = GoalNow(goalMet, Snapshot)
               /\ goalFrame' = GoalFrameNow(goalMet, goalFrame, Snapshot, StepFrameNumber(t))
               /\ UNCHANGED run2
     ELSE UNCHANGED <<goalMet, goalFrame, run2>>
  /\ toWorker' = IF WorkerExists
                 THEN Append(toWorker,
                        [type |-> "step", id |-> t.id,
                         frameNumber |-> StepFrameNumber(t),
                         state |-> Snapshot, maxFrames |-> 0])
                 ELSE toWorker
  /\ UNCHANGED <<inputVars, memVars, w2Pc, currentChallenge, calls, plan, preLeft, emuFrame, emuX, emuInput, freeLeft, heldButtons,
                 hostExec, toHost, workerVars, rcPc, status, execResult, result,
                 histVars>>

\* stepFrame gives up after 500 polls without a new frame: the main loop
\* was paused (by another stepFrame) before this call saw its frame.
\* handleStepRequest rethrows, and no response is sent.
StepFrameTimeout(t) ==
  /\ t.owner = "sandbox"
  /\ ~FrameAdvanced(t)
  /\ ~emuRunning
  /\ stepTasks' = stepTasks \ {t}
  /\ emuRunning' = StepFramePause
  /\ UNCHANGED <<inputVars, memVars, sessVars, plan, preLeft, emuFrame, emuX, emuInput,
                 freeLeft, heldButtons, hostExec,
                 toHost, toWorker, workerVars, engineVars, histVars>>

(* --------------------- engine: ChallengeEngine ------------------------- *)

\* A result that looks at the goal before it looks at the error.
DecideStatus_GoalFirst(res, met, max) ==
  IF met THEN "success"
  ELSE IF res.error # "" THEN "error"
  ELSE IF res.framesExecuted >= max THEN "timeout"
  ELSE "failure"

\* runChallenge's "Determine result".
DecideStatus(res, met, max) ==
  IF res.error # "" THEN "error"
  ELSE IF met THEN "success"
  ELSE IF res.framesExecuted >= max THEN "timeout"
  ELSE "failure"

\* framesUsed of the ChallengeResult.
FramesUsed(res, met, at) ==
  IF res.error = "" /\ met THEN at ELSE res.framesExecuted

\* CodeSandbox.execute
Execute ==
  /\ hostExec' = TRUE
  /\ toWorker' = Append(toWorker,
       [type |-> "execute", id |-> 0, frameNumber |-> 0, state |-> EmptyState,
        maxFrames |-> maxFrames])

\* runChallenge up to its first await: the status is running; loadState is
\* followed by a step, discovery steps three frames; then the script is
\* executed.
RunChallenge ==
  /\ rcPc = "idle"
  /\ currentChallenge' = 1
  /\ status' = "running"
  /\ IF preLeft > 0
     THEN /\ rcPc' = "prelude"
          /\ preLeft' = preLeft - 1
          /\ stepTasks' = stepTasks \cup {StepFrameTask("engine", 0)}
          /\ emuRunning' = TRUE
          /\ UNCHANGED <<hostExec, toWorker>>
     ELSE /\ rcPc' = "executing"
          /\ Execute
          /\ UNCHANGED <<preLeft, stepTasks, emuRunning>>
  /\ UNCHANGED <<inputVars, memVars, run2, w2Pc, calls, plan, emuFrame, emuX, emuInput, freeLeft, heldButtons, toHost,
                 workerVars, goalMet, goalFrame, execResult, result, histVars>>

\* A stepFrame of runChallenge's preparation resolves; the next one starts,
\* or the script is executed.
PreludeCheckFrame(t) ==
  /\ t.owner = "engine"
  /\ FrameAdvanced(t)
  /\ IF preLeft > 0
     THEN /\ preLeft' = preLeft - 1
          /\ stepTasks' = (stepTasks \ {t}) \cup {StepFrameTask("engine", 0)}
          /\ emuRunning' = TRUE
          /\ UNCHANGED <<rcPc, hostExec, toWorker>>
     ELSE /\ rcPc' = "executing"
          /\ stepTasks' = stepTasks \ {t}
          /\ emuRunning' = StepFramePause
          /\ Execute
          /\ UNCHANGED preLeft
  /\ UNCHANGED <<inputVars, memVars, sessVars, plan, emuFrame, emuX, emuInput, freeLeft, heldButtons, toHost,
                 workerVars, status, goalMet, goalFrame, execResult, result,
                 histVars>>

\* A releaseAll that forgets the buttons without releasing them.
ControllerReleaseAll_Forget == [held |-> {}, input |-> emuInput]

\* GameController.releaseAll: every held button is released.
ControllerReleaseAll ==
  ApplyInput([action |-> "releaseAll", button |-> ""],
             [held |-> heldButtons, input |-> emuInput])

\* currentExecution.resolve(res): the runChallenge call that awaits execute
\* runs on to its 100 ms timer: releaseAll.
Resolve(res) ==
  /\ hostExec' = FALSE
  /\ heldButtons' = ControllerReleaseAll.held
  /\ emuInput' = ControllerReleaseAll.input
  /\ IF run2.execd
     THEN /\ run2' = [run2 EXCEPT !.execResult = res, !.pc = "settle"]
          /\ UNCHANGED <<execResult, rcPc>>
     ELSE /\ execResult' = res
          /\ rcPc' = "settle"
          /\ UNCHANGED run2

\* handleWorkerMessage 'complete': execute() resolves.
HandleComplete ==
  /\ toHost # <<>>
  /\ Head(toHost).type = "complete"
  /\ toHost' = Tail(toHost)
  /\ IF hostExec
     THEN Resolve(Head(toHost).result)
     ELSE UNCHANGED <<hostExec, execResult, heldButtons, emuInput, rcPc, run2>>
  /\ UNCHANGED <<inputVars, memVars, w2Pc, currentChallenge, calls, plan, preLeft,
                 emuFrame, emuRunning, emuX, freeLeft, stepTasks,
                 toWorker, workerVars, status, goalMet, goalFrame, result,
                 histVars>>

\* runChallenge after the timer: play, the final state, the final goal
\* check, the status and the result.
Finish ==
  /\ rcPc = "settle"
  /\ rcPc' = "done"
  /\ emuRunning' = TRUE
  /\ goalMet' = GoalNow(goalMet, Snapshot)
  /\ goalFrame' = GoalFrameNow(goalMet, goalFrame, Snapshot, execResult.framesExecuted)
  /\ status' = DecideStatus(execResult, goalMet', maxFrames)
  /\ result' = [set |-> TRUE,
                success |-> (status' = "success"),
                status |-> status',
                framesUsed |-> FramesUsed(execResult, goalMet', goalFrame'),
                error |-> execResult.error]
  /\ UNCHANGED <<inputVars, memVars, sessVars, plan, preLeft, emuFrame, emuX, emuInput, freeLeft, heldButtons,
                 hostExec, stepTasks, toHost, toWorker, workerVars, execResult,
                 histVars>>

(* ------------- sessions: stop, reset, a second run --------------------- *)

\* An execute that does not look at currentExecution.
ExecutionInProgress_Never == FALSE

\* execute's check of currentExecution.
ExecutionInProgress == hostExec

TerminateMsg ==
  [type |-> "terminate", id |-> 0, frameNumber |-> 0, state |-> EmptyState,
   maxFrames |-> 0]

TerminatedResult ==
  [set |-> TRUE, completed |-> FALSE, framesExecuted |-> 0,
   error |-> TerminatedError]

\* runChallenge's catch: the result of a call whose try block threw.
CaughtResult(msg) ==
  [set |-> TRUE, success |-> FALSE, status |-> "error", framesUsed |-> 0,
   error |-> msg]

\* CodeSandbox.terminate: 'terminate' is posted and the pending execute
\* resolved.
Terminate ==
  /\ toWorker' = Append(toWorker, TerminateMsg)
  /\ IF hostExec
     THEN Resolve(TerminatedResult)
     ELSE UNCHANGED <<hostExec, heldButtons, emuInput, execResult, rcPc, run2>>

\* ChallengeEngine.stop, called while the first run is in progress.
Stop ==
  /\ ~calls.stop
  /\ rcPc \in {"executing", "settle"}
  /\ calls' = [calls EXCEPT !.stop = TRUE]
  /\ Terminate
  /\ status' = "idle"
  /\ UNCHANGED <<inputVars, memVars, w2Pc, currentChallenge, plan, preLeft, emuFrame,
                 emuRunning, emuX, freeLeft, stepTasks, toHost, workerVars,
                 goalMet, goalFrame, result, histVars>>

\* ChallengeEngine.reset, called in a terminal status: stop, then
\* currentChallenge = null and controller.releaseAll.
Reset ==
  /\ ~calls.reset
  /\ status \in {"success", "failure", "timeout", "error"}
  /\ calls' = [calls EXCEPT !.reset = TRUE, !.held = heldButtons]
  /\ toWorker' = Append(toWorker, TerminateMsg)
  /\ IF hostExec
     THEN Resolve(TerminatedResult)
     ELSE /\ heldButtons' = ControllerReleaseAll.held
          /\ emuInput' = ControllerReleaseAll.input
          /\ UNCHANGED <<hostExec, execResult, rcPc, run2>>
  /\ status' = "idle"
  /\ currentChallenge' = 0
  /\ UNCHANGED <<inputVars, memVars, w2Pc, plan, preLeft, emuFrame, emuRunning, emuX,
                 freeLeft, stepTasks, toHost, workerVars, goalMet, goalFrame,
                 result, histVars>>

\* ChallengeEngine.destroy, called when the first run is over and no message
\* of the worker is waiting: reset(), then CodeSandbox.destroy terminates
\* the worker.  The next execute makes a new worker: messageId 0, no
\* pendingRequests, no script.
Destroy ==
  /\ ~calls.reset
  /\ rcPc = "done"
  /\ run2.pc = "idle"
  /\ toHost = <<>>
  /\ calls' = [calls EXCEPT !.reset = TRUE, !.held = heldButtons]
  /\ heldButtons' = ControllerReleaseAll.held
  /\ emuInput' = ControllerReleaseAll.input
  /\ status' = "idle"
  /\ currentChallenge' = 0
  /\ hostExec' = FALSE
  /\ toWorker' = <<>>
  /\ wCur' = NoExec
  /\ wMsgId' = 0
  /\ pending' = {}
  /\ wPc' = "gone"
  /\ loopLeft' = 0
  /\ UNCHANGED <<inputVars, memVars, run2, w2Pc, plan, preLeft, emuFrame,
                 emuRunning, emuX, freeLeft, stepTasks, toHost, rcPc, goalMet,
                 goalFrame, execResult, result, histVars>>

\* A second runChallenge call (a challenge without initialState, memory
\* discovered), made once the first call has executed its script: up to
\* its await of execute, or through its catch when execute throws.
RunChallenge2 ==
  /\ run2.pc = "idle"
  /\ rcPc \in {"executing", "settle", "done"}
  /\ currentChallenge' = 2
  /\ IF ExecutionInProgress
     THEN /\ status' = "error"
          /\ run2' = [run2 EXCEPT !.pc = "done",
                                  !.result = CaughtResult(InProgressError)]
          /\ UNCHANGED <<hostExec, toWorker>>
     ELSE /\ status' = "running"
          /\ run2' = [run2 EXCEPT !.pc = "executing", !.execd = TRUE]
          /\ Execute
  /\ UNCHANGED <<inputVars, memVars, w2Pc, calls, plan, preLeft, emuVars, heldButtons,
                 stepTasks, toHost, workerVars, rcPc, goalMet, goalFrame,
                 execResult, result, histVars>>

\* The second runChallenge call after its timer.
Finish2 ==
  /\ run2.pc = "settle"
  /\ emuRunning' = TRUE
  /\ LET met == GoalNow(run2.goalMet, Snapshot)
         at == GoalFrameNow(run2.goalMet, run2.goalFrame, Snapshot,
                            run2.execResult.framesExecuted)
         st == DecideStatus(run2.execResult, met, maxFrames)
     IN /\ status' = st
        /\ run2' = [run2 EXCEPT
             !.pc = "done", !.goalMet = met, !.goalFrame = at,
             !.result = [set |-> TRUE, success |-> (st = "success"),
                         status |-> st,
                         framesUsed |-> FramesUsed(run2.execResult, met, at),
                         error |-> run2.execResult.error]]
  /\ UNCHANGED <<inputVars, memVars, w2Pc, currentChallenge, calls, plan, preLeft,
                 emuFrame, emuX, emuInput, freeLeft, heldButtons, hostExec,
                 stepTasks, toHost, toWorker, workerVars, rcPc, goalMet,
                 goalFrame, execResult, result, histVars>>

\* handleWorkerMessage 'error'.
HandleErrorEvent ==
  /\ toHost # <<>>
  /\ Head(toHost).type = "error"
  /\ toHost' = Tail(toHost)
  /\ IF hostExec
     THEN Resolve(Head(toHost).result)
     ELSE UNCHANGED <<hostExec, execResult, heldButtons, emuInput, rcPc, run2>>
  /\ UNCHANGED <<inputVars, memVars, w2Pc, currentChallenge, calls, plan, preLeft,
                 emuFrame, emuRunning, emuX, freeLeft, stepTasks,
                 toWorker, workerVars, status, goalMet, goalFrame, result,
                 histVars>>

\* handleWorkerError: an exception nothing in the worker caught (thrown by
\* a timer callback of the script).
HandleWorkerError ==
  /\ ~calls.onerror
  /\ wPc # "idle"
  /\ calls' = [calls EXCEPT !.onerror = TRUE]
  /\ IF hostExec
     THEN Resolve([set |-> TRUE, completed |-> FALSE, framesExecuted |-> 0,
                   error |-> WorkerErrorMsg])
     ELSE UNCHANGED <<hostExec, execResult, heldButtons, emuInput, rcPc, run2>>
  /\ UNCHANGED <<inputVars, memVars, w2Pc, currentChallenge, plan, preLeft,
                 emuFrame, emuRunning, emuX, freeLeft, stepTasks, toHost,
                 toWorker, workerVars, status, goalMet, goalFrame, result,
                 histVars>>

\* self.onmessage 'terminate'.
WorkerTerminate ==
  /\ toWorker # <<>>
  /\ Head(toWorker).type = "terminate"
  /\ wPc # "run"
  /\ ~Running2
  /\ toWorker' = Tail(toWorker)
  /\ wCur' = NoExec
  /\ UNCHANGED <<inputVars, memVars, sessVars, plan, preLeft, emuVars, heldButtons,
                 hostExec, stepTasks, toHost, wMsgId, pending, wPc, loopLeft,
                 engineVars, histVars>>

\* self.onmessage 'execute' for the second script, the first one not
\* running synchronous code.
ExecuteCode2 ==
  /\ toWorker # <<>>
  /\ Head(toWorker).type = "execute"
  /\ wPc \notin {"idle", "run"}
  /\ w2Pc = "idle"
  /\ toWorker' = Tail(toWorker)
  /\ wCur' = NewExec(Head(toWorker).maxFrames)
  /\ SendRequest("getState", "init2", <<>>)
  /\ w2Pc' = "waitInit"
  /\ UNCHANGED <<inputVars, memVars, run2, currentChallenge, calls, plan, preLeft,
                 emuVars, heldButtons, hostExec, stepTasks, wPc, loopLeft,
                 engineVars, histVars>>

\* The second script: await game.step(), then return.
Script2Step ==
  /\ w2Pc = "run"
  /\ IF ~wCur.live
     THEN Settle2(FailedResult(wCur, NoExecutionError)) /\ UNCHANGED <<wMsgId, pending>>
     ELSE IF BudgetExhausted(wCur)
     THEN Settle2(FailedResult(wCur, BudgetError)) /\ UNCHANGED <<wMsgId, pending>>
     ELSE SendStep("main2") /\ w2Pc' = "waitStep"
  /\ UNCHANGED <<inputVars, memVars, run2, currentChallenge, calls, plan, preLeft,
                 emuVars, heldButtons, hostExec, stepTasks, toWorker, wPc,
                 loopLeft, engineVars, histVars>>

Script2Return ==
  /\ w2Pc = "ran"
  /\ Settle2(IF wCur.live THEN CompletedResult(wCur)
             ELSE FailedResult(wCur, TypeErrorMsg))
  /\ UNCHANGED <<inputVars, memVars, run2, currentChallenge, calls, plan, preLeft,
                 emuVars, heldButtons, hostExec, stepTasks, toWorker, wMsgId,
                 pending, wPc, loopLeft, engineVars, histVars>>

\* throw null: executeCode's catch reads error.message and throws itself;
\* onmessage's catch posts 'error', and currentExecution stays.
ScriptThrowNull ==
  /\ Running
  /\ CanRun(Op("throwNull", "", 0))
  /\ plan' = PlanAfter
  /\ toHost' = Append(toHost, ErrorEvent(TypeErrorMsg))
  /\ wPc' = "done"
  /\ UNCHANGED <<scriptFrame, wCur, wMsgId, pending, loopLeft, histVars>>

(* --------------- memory discovery: discoverWorkRamBase ----------------- *)

\* heap[i]: undefined outside the heap.
HeapAt(h, i) == IF i \in DOMAIN h THEN h[i] ELSE Undefined

\* A phase 1 that keeps every position holding MARKER1.
Candidates_Unfiltered(h) == {i \in DOMAIN h : h[i] = MARKER1}

\* Phase 1: the positions holding MARKER1 whose base leaves room for the
\* whole of work RAM inside the heap.
Candidates(h) ==
  {i \in DOMAIN h : /\ h[i] = MARKER1
                    /\ i - LIVES_OFFSET >= 0
                    /\ i - LIVES_OFFSET + RamLast < HeapLen}

\* A phase 2 that keeps every candidate.
Phase2Matches_KeepAll(m1, h) == m1

\* Phase 2: the candidates that now hold MARKER2.
Phase2Matches(m1, h) == {pos \in m1 : h[pos] = MARKER2}

MinOf(S) == CHOOSE x \in S : \A y \in S : x <= y

\* The zone byte of the work RAM that has its lives byte at livesAddr is a
\* plausible zone number.
PlausibleZone(h, livesAddr) ==
  LET zone == HeapAt(h, livesAddr - LIVES_OFFSET + ZONE_OFFSET)
  IN zone # Undefined /\ zone <= MaxZone

\* A choice that takes the first match whatever its zone byte.
DiscoveredBase_FirstMatch(ms, h) == MinOf(ms) - LIVES_OFFSET

\* The base chosen among the matches (kept in increasing order): that of
\* the first match with a plausible zone byte, else that of the first match.
DiscoveredBase(ms, h) ==
  LET good == {livesAddr \in ms : PlausibleZone(h, livesAddr)}
  IN (IF good # {} THEN MinOf(good) ELSE MinOf(ms)) - LIVES_OFFSET

\* A restore that also resets the zone byte.
Restored_ZoneToo(h, base) ==
  [i \in DOMAIN h |->
     IF i = base + LIVES_OFFSET THEN DEFAULT_LIVES
     ELSE IF i = base + ZONE_OFFSET THEN 0 ELSE h[i]]

\* The lives byte is restored.
Restored(h, base) ==
  IF base + LIVES_OFFSET \in DOMAIN h
  THEN [h EXCEPT ![base + LIVES_OFFSET] = DEFAULT_LIVES]
  ELSE h

\* discoverWorkRamBase throws: no matching positions.
DiscoveryFailed == [ok |-> FALSE, base |-> 0]

\* What discoverWorkRamBase returns or throws after its third stepFrame.
DiscoveryOutcome(ms, h) ==
  IF ms = {} THEN DiscoveryFailed ELSE [ok |-> TRUE, base |-> DiscoveredBase(ms, h)]

\* A runChallenge that lets the failure of discovery reach its outer catch.
DiscoveryAborts_OnFailure(outcome) == ~outcome.ok

\* runChallenge's try/catch around discoverMemory: the failure is logged
\* and the run goes on.
DiscoveryAborts(outcome) == FALSE

\* discoverWorkRamBase up to its first await: the first marker is set as a
\* cheat and stepFrame started.
StartDiscovery(caller) ==
  /\ cheat' = MARKER1
  /\ disc' = [NoDisc EXCEPT !.pc = "phase1", !.caller = caller]
  /\ stepTasks' = stepTasks \cup {StepFrameTask("discover", 0)}
  /\ emuRunning' = TRUE

\* runChallenge (a challenge without initialState, memory not discovered)
\* up to its first await: the status is running, the game's table is
\* loaded, discovery starts.
RunChallengeDiscover ==
  /\ rcPc = "idle"
  /\ disc.pc = "idle"
  /\ currentChallenge' = 1
  /\ status' = "running"
  /\ reader' = [reader EXCEPT !.loaded = TRUE]
  /\ rcPc' = "prelude"
  /\ StartDiscovery("engine")
  /\ UNCHANGED <<inputVars, heap, layout, found, run2, w2Pc, calls, plan,
                 preLeft, emuFrame, emuX, emuInput, freeLeft, heldButtons,
                 hostExec, toHost, toWorker, workerVars, goalMet, goalFrame,
                 execResult, result, histVars>>

\* Discoveries one behaviour makes.
MaxDiscoveries == 2

\* controller.discoverMemory called again once the run is over.
DiscoverMemory ==
  /\ rcPc = "done"
  /\ disc.pc = "done"
  /\ stepTasks = {}
  /\ Len(found) < MaxDiscoveries
  /\ StartDiscovery("direct")
  /\ UNCHANGED <<inputVars, heap, layout, reader, found, sessVars, plan,
                 preLeft, emuFrame, emuX, emuInput, freeLeft, heldButtons,
                 hostExec, toHost, toWorker, workerVars, engineVars,
                 histVars>>

\* controller.isMemoryDiscovered as runChallenge reads it: GameController
\* has no member of that name, so the read gives undefined.
IsMemoryDiscovered == FALSE

\* A later runChallenge call on the same engine (a challenge without
\* initialState), made once the first call has returned: up to its first
\* await.
RunChallengeAgain ==
  /\ rcPc = "done"
  /\ run2.pc = "idle"
  /\ disc.pc = "done"
  /\ currentChallenge' = 2
  /\ status' = "running"
  /\ IF IsMemoryDiscovered
     THEN /\ run2' = [run2 EXCEPT !.pc = "executing", !.execd = TRUE]
          /\ Execute
          /\ UNCHANGED <<cheat, disc, stepTasks, emuRunning>>
     ELSE /\ run2' = [run2 EXCEPT !.pc = "prelude"]
          /\ StartDiscovery("engine2")
          /\ UNCHANGED <<hostExec, toWorker>>
  /\ UNCHANGED <<inputVars, heap, layout, reader, found, w2Pc, calls, plan,
                 preLeft, emuFrame, emuX, emuInput, freeLeft, heldButtons,
                 toHost, workerVars, rcPc, goalMet, goalFrame, execResult,
                 result, histVars>>

\* discoverMemory has returned or thrown: the runChallenge call that
\* awaited it logs the outcome and executes its script.
DiscoverySettled(outcome) ==
  CASE disc.caller = "engine" ->
         /\ IF DiscoveryAborts(outcome)
            THEN /\ status' = "error"
                 /\ rcPc' = "done"
                 /\ result' = CaughtResult("Failed to discover work RAM base")
                 /\ UNCHANGED <<hostExec, toWorker>>
            ELSE /\ rcPc' = "executing"
                 /\ Execute
                 /\ UNCHANGED <<status, result>>
         /\ UNCHANGED run2
    [] disc.caller = "engine2" ->
         /\ IF DiscoveryAborts(outcome)
            THEN /\ status' = "error"
                 /\ run2' = [run2 EXCEPT
                      !.pc = "done",
                      !.result = CaughtResult("Failed to discover work RAM base")]
                 /\ UNCHANGED <<hostExec, toWorker>>
            ELSE IF ExecutionInProgress
            THEN /\ status' = "error"
                 /\ run2' = [run2 EXCEPT !.pc = "done",
                                         !.result = CaughtResult(InProgressError)]
                 /\ UNCHANGED <<hostExec, toWorker>>
            ELSE /\ run2' = [run2 EXCEPT !.pc = "executing", !.execd = TRUE]
                 /\ Execute
                 /\ UNCHANGED status
         /\ UNCHANGED <<rcPc, result>>
    [] OTHER -> UNCHANGED <<rcPc, status, result, hostExec, toWorker, run2>>

\* A stepFrame of discoverWorkRamBase resolves and discovery runs on to its
\* next await or to its end; at its end discoverMemory sets the reader's
\* offset, and runChallenge executes the script.
DiscoverCheckFrame(t) ==
  /\ t.owner = "discover"
  /\ FrameAdvanced(t)
  /\ CASE disc.pc = "phase1" ->
            /\ disc' = [disc EXCEPT !.pc = "phase2",
                                    !.marker1Positions = Candidates(heap),
                                    !.heap1 = heap]
            /\ cheat' = MARKER2
            /\ stepTasks' = (stepTasks \ {t}) \cup {StepFrameTask("discover", 0)}
            /\ emuRunning' = TRUE
            /\ UNCHANGED <<heap, reader, found, rcPc, status, result,
                           hostExec, toWorker, run2>>
       [] disc.pc = "phase2" ->
            /\ disc' = [disc EXCEPT !.pc = "clear",
                                    !.matches = Phase2Matches(disc.marker1Positions, heap),
                                    !.heap2 = heap]
            /\ cheat' = 0
            /\ stepTasks' = (stepTasks \ {t}) \cup {StepFrameTask("discover", 0)}
            /\ emuRunning' = TRUE
            /\ UNCHANGED <<heap, reader, found, rcPc, status, result,
                           hostExec, toWorker, run2>>
       [] OTHER ->
            LET outcome == DiscoveryOutcome(disc.matches, heap)
            IN /\ disc' = [disc EXCEPT !.pc = "done"]
               /\ stepTasks' = stepTasks \ {t}
               /\ emuRunning' = StepFramePause
               /\ found' = Append(found, outcome)
               /\ heap' = IF outcome.ok THEN Restored(heap, outcome.base) ELSE heap
               /\ reader' = IF outcome.ok
                            THEN [reader EXCEPT !.memoryOffset =
                                    outcome.base - ConsoleRamBase]
                            ELSE reader
               /\ DiscoverySettled(outcome)
               /\ UNCHANGED cheat
  /\ UNCHANGED <<inputVars, layout, w2Pc, currentChallenge, calls, plan,
                 preLeft, emuFrame, emuX, emuInput, freeLeft, heldButtons,
                 toHost, workerVars, goalMet, goalFrame, execResult, histVars>>

\* A stepFrame of discoverWorkRamBase rejects after its poll limit: the
\* main loop was paused by another stepFrame before this one saw its
\* frame.  discoverWorkRamBase has no handler: it rejects where it stands,
\* and its caller runs on.
DiscoverTimeout(t) ==
  /\ t.owner = "discover"
  /\ ~FrameAdvanced(t)
  /\ ~emuRunning
  /\ disc.pc \in {"phase1", "phase2", "clear"}
  /\ stepTasks' = stepTasks \ {t}
  /\ emuRunning' = StepFramePause
  /\ disc' = [disc EXCEPT !.pc = "done"]
  /\ found' = Append(found, DiscoveryFailed)
  /\ DiscoverySettled(DiscoveryFailed)
  /\ UNCHANGED <<inputVars, heap, cheat, layout, reader, w2Pc,
                 currentChallenge, calls, plan, preLeft, emuFrame, emuX,
                 emuInput, freeLeft, heldButtons, toHost, workerVars,
                 goalMet, goalFrame, execResult, histVars>>

(* ------------------------ MemoryReader, parser -------------------------- *)

\* A JavaScript number n as the pair (hi, lo) with n = hi * 2^16 + lo and
\* lo in 0 .. 2^16 - 1.
Half == 65536

Num(hi, lo) == [hi |-> hi, lo |-> lo]

\* The number v, for a v of small magnitude.
NumOf(v) == Num(v \div Half, v % Half)

\* The value undefined.
NumUndefined == Num(Undefined, 0)

\* ToInt32: the number modulo 2^32 as a signed 32-bit integer.
ToInt32(n) == Num(((n.hi + Half \div 2) % Half) - Half \div 2, n.lo)

\* value << 8
ShiftLeft8(n) ==
  ToInt32(Num(ToInt32(n).hi * 256 + (n.lo * 256) \div Half, (n.lo * 256) % Half))

\* value | byte for a value whose low eight bits are clear; the byte
\* undefined counts as 0.
OrByte(n, b) == ToInt32(Num(n.hi, n.lo + (IF b = Undefined THEN 0 ELSE b)))

\* 1 << count: the count is taken modulo 32.
OneShifted(count) ==
  LET k == count % 32
  IN ToInt32(IF k < 16 THEN Num(0, 2^k) ELSE Num(2^(k - 16), 0))

\* value & bit is not 0, for a bit 1 << count.
HasBit(n, count) ==
  LET k == count % 32
      v == ToInt32(n)
  IN IF k < 16 THEN (v.lo \div 2^k) % 2 = 1
     ELSE ((v.hi % Half) \div 2^(k - 16)) % 2 = 1

\* a - b
Minus(a, b) ==
  LET lo == a.lo - b.lo
  IN Num(a.hi - b.hi + lo \div Half, lo % Half)

DigitOf(c) ==
  CASE c = "0" -> 0 [] c = "1" -> 1 [] c = "2" -> 2 [] c = "3" -> 3
    [] c = "4" -> 4 [] c = "5" -> 5 [] c = "6" -> 6 [] c = "7" -> 7
    [] c = "8" -> 8 [] c = "9" -> 9 [] OTHER -> 0 - 1

RECURSIVE DigitsValue(_, _)
\* The value of the digits str starts with, after the digits read so far.
DigitsValue(str, acc) ==
  IF str = <<>> \/ DigitOf(Head(str)) < 0 THEN acc
  ELSE DigitsValue(Tail(str), acc * 10 + DigitOf(Head(str)))

NaN == 0 - 1

\* parseInt(str, 10) for a string without sign and blanks.
ParseInt(str) ==
  IF str = <<>> \/ DigitOf(Head(str)) < 0 THEN NaN ELSE DigitsValue(str, 0)

\* The type of a value that is not a mapping.
UndefinedType == <<"undefined">>

InvalidType(msg) ==
  [ok |-> FALSE, error |-> msg, endian |-> "", signed |-> FALSE, bytes |-> 0]

\* parseTypeSpec
ParseTypeSpec(typeSpec) ==
  IF typeSpec = UndefinedType THEN InvalidType("TypeError: reading 'length'")
  ELSE IF Len(typeSpec) < 3 THEN InvalidType("Invalid type spec")
  ELSE IF typeSpec[1] \notin {">", "<", "|"} THEN InvalidType("Invalid endian character")
  ELSE IF typeSpec[2] \notin {"u", "i"} THEN InvalidType("Invalid signed character")
  ELSE LET bytes == ParseInt(SubSeq(typeSpec, 3, Len(typeSpec)))
       IN IF bytes = NaN \/ bytes < 1 \/ bytes > 8 THEN InvalidType("Invalid byte count")
          ELSE [ok |-> TRUE, error |-> "",
                endian |-> CASE typeSpec[1] = ">" -> "big"
                             [] typeSpec[1] = "<" -> "little"
                             [] OTHER -> "native",
                signed |-> typeSpec[2] = "i",
                bytes |-> bytes]

\* HEAPU8.slice(address, address + length): the bounds are clamped to the
\* heap, a negative one counts from its end.
SliceBound(h, a) ==
  LET len == Cardinality(DOMAIN h)
  IN IF a < 0 THEN Max(len + a, 0) ELSE Min(a, len)

\* EmulatorBridge.readMemoryBytes
ReadMemoryBytes(h, address, length) ==
  LET from == SliceBound(h, address)
      to == SliceBound(h, address + length)
  IN [i \in 1 .. Max(to - from, 0) |-> h[from + i - 1]]

\* rawBytes[i]
ByteAt(rawBytes, i) ==
  IF i + 1 \in DOMAIN rawBytes THEN rawBytes[i + 1] ELSE Undefined

RECURSIVE Combined(_, _, _)
\* The loop value = (value << 8) | rawBytes[i] over the indices in order.
Combined(rawBytes, order, value) ==
  IF order = <<>> THEN value
  ELSE Combined(rawBytes, Tail(order),
                OrByte(ShiftLeft8(value), ByteAt(rawBytes, Head(order))))

\* The byte indices in the order the loop visits them.
LoopOrder(type) ==
  IF type.endian = "little"
  THEN [k \in 1 .. type.bytes |-> type.bytes - k]
  ELSE [k \in 1 .. type.bytes |-> k - 1]

\* MemoryReader.readMemoryTyped on the bytes read.
ReadMemoryTyped(rawBytes, type) ==
  IF type.bytes = 1
  THEN LET value == ByteAt(rawBytes, 0)
       IN IF value = Undefined THEN NumUndefined
          ELSE IF type.signed /\ value >= 128 THEN NumOf(value - 256)
          ELSE NumOf(value)
  ELSE LET value == Combined(rawBytes, LoopOrder(type), NumOf(0))
       IN IF type.signed /\ HasBit(value, type.bytes * 8 - 1)
          THEN Minus(value, OneShifted(type.bytes * 8))
          ELSE value

\* The names every object inherits (one of them).
ObjectPrototype == {"toString"}

\* dataJson.info[name]: the mapping, an inherited member, or undefined.
Lookup(info, name) ==
  IF name \in DOMAIN info THEN [truthy |-> TRUE, address |-> info[name].address,
                               type |-> info[name].type]
  ELSE IF name \in ObjectPrototype
       THEN [truthy |-> TRUE, address |-> Undefined, type |-> UndefinedType]
  ELSE [truthy |-> FALSE, address |-> Undefined, type |-> UndefinedType]

NotLoadedError == "No game data loaded. Call loadGame() first."

\* The error of getVariable for a name the table lacks.
ReaderNotFound == "Variable not found. Available"

\* MemoryReader.readVariable: the value, or the error thrown.
ReadVariable(h, offset, mapping) ==
  LET parsed == ParseTypeSpec(mapping.type)
  IN IF ~parsed.ok
     THEN [ok |-> FALSE, error |-> parsed.error, value |-> NumOf(0), reads |-> 0]
     ELSE [ok |-> TRUE, error |-> "",
           value |-> ReadMemoryTyped(
                       ReadMemoryBytes(h, mapping.address + offset, parsed.bytes),
                       parsed),
           reads |-> 1]

\* MemoryReader.getVariable(name) of a reader r.
GetVariableOf(h, r, name) ==
  IF ~r.loaded
  THEN [ok |-> FALSE, error |-> NotLoadedError, value |-> NumOf(0), reads |-> 0]
  ELSE IF ~Lookup(r.info, name).truthy
  THEN [ok |-> FALSE, error |-> ReaderNotFound, value |-> NumOf(0), reads |-> 0]
  ELSE ReadVariable(h, r.memoryOffset, Lookup(r.info, name))

\* A getState that leaves out the variables it cannot read.
GetStateOf_SkipFailed(h, r) ==
  [n \in {m \in DOMAIN r.info : ReadVariable(h, r.memoryOffset, r.info[m]).ok} |->
     ReadVariable(h, r.memoryOffset, r.info[n]).value]

\* MemoryReader.getState of a loaded reader: every own name of the table,
\* 0 for a variable whose read throws.
GetStateOf(h, r) ==
  [n \in DOMAIN r.info |->
     LET read == ReadVariable(h, r.memoryOffset, r.info[n])
     IN IF read.ok THEN read.value ELSE NumOf(0)]

\* MemoryReader.loadGame
LoadGame ==
  /\ ~reader.loaded
  /\ reader' = [reader EXCEPT !.loaded = TRUE]
  /\ UNCHANGED <<inputVars, heap, cheat, layout, disc, found, sessVars, plan,
                 preLeft, emuVars, heldButtons, hostExec, stepTasks, toHost,
                 toWorker, workerVars, engineVars, histVars>>

\* A call of MemoryReader.getVariable(name).
GetVariable(name) ==
  /\ LET got == GetVariableOf(heap, reader, name)
     IN reader' = [reader EXCEPT !.out =
          [call |-> "getVariable", name |-> name, ok |-> got.ok,
           error |-> got.error, value |-> got.value, state |-> EmptyState,
           reads |-> got.reads]]
  /\ UNCHANGED <<inputVars, heap, cheat, layout, disc, found, sessVars, plan,
                 preLeft, emuVars, heldButtons, hostExec, stepTasks, toHost,
                 toWorker, workerVars, engineVars, histVars>>

\* A call of MemoryReader.getState().
GetState ==
  /\ reader' = [reader EXCEPT !.out =
       IF reader.loaded
       THEN [call |-> "getState", name |-> "", ok |-> TRUE, error |-> "",
             value |-> NumOf(0), state |-> GetStateOf(heap, reader),
             reads |-> Cardinality({n \in DOMAIN reader.info :
                          ReadVariable(heap, reader.memoryOffset, reader.info[n]).ok})]
       ELSE [call |-> "getState", name |-> "", ok |-> FALSE,
             error |-> NotLoadedError, value |-> NumOf(0),
             state |-> EmptyState, reads |-> 0]]
  /\ UNCHANGED <<inputVars, heap, cheat, layout, disc, found, sessVars, plan,
                 preLeft, emuVars, heldButtons, hostExec, stepTasks, toHost,
                 toWorker, workerVars, engineVars, histVars>>

(* --------------------------- specification ----------------------------- *)

\* The game was started by the game starter: the variable table is loaded
\* and memory discovered; the game writes nothing the model looks at.
MemoryStarted ==
  /\ heap = [i \in 0 .. HeapLen - 1 |-> 0]
  /\ cheat = 0
  /\ layout = [ramBase |-> 1, cheatCells |-> {LIVES_OFFSET}, noise |-> NoNoise]
  /\ disc = NoDisc
  /\ reader = [loaded |-> TRUE, memoryOffset |-> 1 - ConsoleRamBase,
               info |-> GameTable, out |-> NoOut]
  /\ found = <<>>

InitControl ==
  /\ emuRunning = TRUE
  /\ emuX = 0
  /\ freeLeft = MaxFreeTicks
  /\ emuInput = {}
  /\ heldButtons = {}
  /\ hostExec = FALSE
  /\ stepTasks = {}
  /\ toHost = <<>>
  /\ toWorker = <<>>
  /\ wCur = NoExec
  /\ wMsgId = 0
  /\ pending = {}
  /\ wPc = "idle"
  /\ loopLeft = 0
  /\ rcPc = "idle"
  /\ status = "idle"
  /\ goalMet = FALSE
  /\ goalFrame = 0
  /\ execResult = NoResult
  /\ result = NoChallengeResult
  /\ consumed = 0
  /\ loop = NoLoop
  /\ run2 = NoRun2
  /\ w2Pc = "idle"
  /\ currentChallenge = 0
  /\ calls = NoCalls

InitRest == InitControl /\ MemoryStarted

\* Any script of at most MaxScriptOps API calls, any of the challenges.
Init ==
  /\ maxFrames \in Budgets
  /\ goalX \in GoalXs
  /\ xRate = 1
  /\ plan = [free |-> TRUE, left |-> MaxScriptOps, ops |-> <<>>]
  /\ preLeft \in PreludeCounts
  /\ emuFrame \in StartFrames
  /\ InitRest

Host ==
  \/ HandleStateRequest
  \/ HandleStepRequest
  \/ \E t \in stepTasks : CheckFrame(t)
  \/ HandleComplete

Engine ==
  \/ RunChallenge
  \/ \E t \in stepTasks : PreludeCheckFrame(t)
  \/ Finish

Worker ==
  \/ ExecuteCode
  \/ WorkerResponse
  \/ StepFramesIter
  \/ ScriptReturn

Next ==
  \/ EmuTick
  \/ Host
  \/ \E t \in stepTasks : StepFrameTimeout(t)
  \/ Engine
  \/ Worker
  \/ \E b \in Buttons : ScriptPress(b)
  \/ \E b \in Buttons : ScriptRelease(b)
  \/ ScriptReleaseAll
  \/ ScriptStep
  \/ ScriptTryStep
  \/ ScriptStepNoAwait
  \/ \E n \in StepCounts : ScriptStepFrames(n)
  \/ \E name \in VarNames \cup {"doesNotExist"} : ScriptGetVariable(name)
  \/ ScriptGetState
  \/ ScriptThrow

Spec == Init /\ [][Next]_vars

\* One engine and its sandbox: a first run of the script press('right');
\* await step(); await step(), a stop() while it is in progress, a reset()
\* in a terminal status, a second runChallenge call.
StopPlans ==
  { <<Op("press", "right", 0), Op("step", "", 0), Op("step", "", 0)>> }

InitStop ==
  /\ maxFrames = BigBudget
  /\ goalX \in GoalXs
  /\ xRate = 1
  /\ \E ops \in StopPlans : plan = [free |-> FALSE, left |-> 0, ops |-> ops]
  /\ preLeft = 0
  /\ emuFrame = 0
  /\ InitRest

NextStop ==
  \/ EmuTick
  \/ Host
  \/ HandleErrorEvent
  \/ \E t \in stepTasks : StepFrameTimeout(t)
  \/ RunChallenge
  \/ Finish
  \/ Stop
  \/ Reset
  \/ RunChallenge2
  \/ Finish2
  \/ ExecuteCode
  \/ WorkerResponse
  \/ WorkerTerminate
  \/ ExecuteCode2
  \/ ScriptPress("right")
  \/ ScriptStep
  \/ ScriptReturn
  \/ Script2Step
  \/ Script2Return

SpecStop == InitStop /\ [][NextStop]_vars

\* One run of a script that ends by throwing: an Error, the error of
\* getVariable, or null; and an exception nothing in the worker catches.
ErrorPlans ==
  { <<Op("step", "", 0), Op("throw", "", 0)>>,
    <<Op("step", "", 0), Op("throwNull", "", 0)>>,
    <<Op("press", "right", 0), Op("getVariable", "doesNotExist", 0)>> }

InitErrors ==
  /\ maxFrames \in Budgets
  /\ goalX \in GoalXs
  /\ xRate = 1
  /\ \E ops \in ErrorPlans : plan = [free |-> FALSE, left |-> 0, ops |-> ops]
  /\ preLeft = 0
  /\ emuFrame \in StartFrames
  /\ InitRest

NextErrors ==
  \/ EmuTick
  \/ Host
  \/ HandleErrorEvent
  \/ HandleWorkerError
  \/ RunChallenge
  \/ Finish
  \/ ExecuteCode
  \/ WorkerResponse
  \/ ScriptPress("right")
  \/ ScriptStep
  \/ ScriptGetVariable("doesNotExist")
  \/ ScriptThrow
  \/ ScriptThrowNull

SpecErrors == InitErrors /\ [][NextErrors]_vars

\* Spec with every handler, timer and script step that can run running
\* eventually: the event loops of the two contexts do not stall.
SpecFair == Spec /\ WF_vars(Next)

\* An engine on a game that was not started by the game starter: no table
\* loaded, memory not discovered.  The core keeps work RAM at any base and
\* its cheat system patches the lives byte, the lives byte and a second
\* cell, or nothing; the game writes to no cell the model looks at, or to
\* the first cell that can be a lives byte.  The script is
\* await game.step().
Layouts ==
  { [ramBase |-> b, cheatCells |-> c, noise |-> n] :
      b \in 0 .. HeapLen - 1 - RamLast,
      c \in {{}, {LIVES_OFFSET}, {LIVES_OFFSET, LIVES_OFFSET + 2}},
      n \in {NoNoise, LIVES_OFFSET} }

InitDiscover ==
  /\ maxFrames = BigBudget
  /\ goalX \in GoalXs
  /\ xRate = 1
  /\ plan = [free |-> FALSE, left |-> 0, ops |-> <<Op("step", "", 0)>>]
  /\ preLeft = 0
  /\ emuFrame = 0
  /\ InitControl
  /\ heap \in [0 .. HeapLen - 1 -> {0, MARKER1}]
  /\ cheat = 0
  /\ layout \in Layouts
  /\ disc = NoDisc
  /\ reader = [loaded |-> FALSE, memoryOffset |-> 0, info |-> GameTable,
               out |-> NoOut]
  /\ found = <<>>

NextDiscover ==
  \/ EmuTick
  \/ Host
  \/ RunChallengeDiscover
  \/ \E t \in stepTasks : DiscoverCheckFrame(t)
  \/ DiscoverMemory
  \/ Finish
  \/ ExecuteCode
  \/ WorkerResponse
  \/ ScriptStep
  \/ ScriptReturn

SpecDiscover == InitDiscover /\ [][NextDiscover]_vars

\* One run of a script that leaves a step request unanswered when it
\* returns; the engine is destroyed and used again.
DestroyPlans ==
  { <<Op("stepNoAwait", "", 0)>>,
    <<Op("step", "", 0), Op("stepNoAwait", "", 0)>> }

InitDestroy ==
  /\ maxFrames = BigBudget
  /\ goalX \in GoalXs
  /\ xRate = 1
  /\ \E ops \in DestroyPlans : plan = [free |-> FALSE, left |-> 0, ops |-> ops]
  /\ preLeft = 0
  /\ emuFrame = 0
  /\ InitRest

NextDestroy ==
  \/ EmuTick
  \/ Host
  \/ \E t \in stepTasks : StepFrameTimeout(t)
  \/ RunChallenge
  \/ Finish
  \/ Destroy
  \/ RunChallenge2
  \/ Finish2
  \/ ExecuteCode
  \/ WorkerResponse
  \/ ExecuteCode2
  \/ ScriptStep
  \/ ScriptStepNoAwait
  \/ ScriptReturn
  \/ Script2Step
  \/ Script2Return

SpecDestroy == InitDestroy /\ [][NextDestroy]_vars

\* Two runChallenge calls in succession on one engine and controller, each
\* with memory discovery; the first script awaits its step or leaves it
\* unanswered when it returns, the second is await game.step().  The core
\* keeps work RAM at the start of the heap and its cheat system patches the
\* lives byte, or nothing.
RerunPlans == { <<Op("step", "", 0)>>, <<Op("stepNoAwait", "", 0)>> }

RerunLayouts ==
  { [ramBase |-> 0, cheatCells |-> c, noise |-> NoNoise] :
      c \in {{}, {LIVES_OFFSET}} }

InitRerun ==
  /\ maxFrames = BigBudget
  /\ goalX \in GoalXs
  /\ xRate = 1
  /\ \E ops \in RerunPlans : plan = [free |-> FALSE, left |-> 0, ops |-> ops]
  /\ preLeft = 0
  /\ emuFrame = 0
  /\ InitControl
  /\ heap = [i \in 0 .. HeapLen - 1 |-> 0]
  /\ cheat = 0
  /\ layout \in RerunLayouts
  /\ disc = NoDisc
  /\ reader = [loaded |-> FALSE, memoryOffset |-> 0, info |-> GameTable,
               out |-> NoOut]
  /\ found = <<>>

NextRerun ==
  \/ EmuTick
  \/ Host
  \/ \E t \in stepTasks : StepFrameTimeout(t)
  \/ RunChallengeDiscover
  \/ \E t \in stepTasks : DiscoverCheckFrame(t)
  \/ \E t \in stepTasks : DiscoverTimeout(t)
  \/ Finish
  \/ RunChallengeAgain
  \/ Finish2
  \/ ExecuteCode
  \/ WorkerResponse
  \/ ExecuteCode2
  \/ ScriptStep
  \/ ScriptStepNoAwait
  \/ ScriptReturn
  \/ Script2Step
  \/ Script2Return

SpecRerun == InitRerun /\ [][NextRerun]_vars

\* One run of a script that queues several inputs, of two buttons, before
\* a step.
InputButtons == {"right", "a"}

InputPlans ==
  { <<Op("press", "right", 0), Op("press", "a", 0), Op("release", "right", 0),
      Op("step", "", 0)>>,
    <<Op("release", "right", 0), Op("press", "right", 0), Op("step", "", 0),
      Op("releaseAll", "", 0), Op("step", "", 0)>>,
    <<Op("press", "right", 0), Op("step", "", 0), Op("releaseAll", "", 0),
      Op("press", "a", 0), Op("step", "", 0)>> }

InitInputs ==
  /\ maxFrames = BigBudget
  /\ goalX \in GoalXs
  /\ xRate = 1
  /\ \E ops \in InputPlans : plan = [free |-> FALSE, left |-> 0, ops |-> ops]
  /\ preLeft = 0
  /\ emuFrame = 0
  /\ InitRest

NextInputs ==
  \/ EmuTick
  \/ Host
  \/ RunChallenge
  \/ Finish
  \/ ExecuteCode
  \/ WorkerResponse
  \/ \E b \in InputButtons : ScriptPress(b)
  \/ \E b \in InputButtons : ScriptRelease(b)
  \/ ScriptReleaseAll
  \/ ScriptStep
  \/ ScriptReturn

SpecInputs == InitInputs /\ [][NextInputs]_vars

\* One run of a script that holds or taps right and then advances: await
\* hold('right', HoldTicks); await step(), or await tap('right'); await
\* step(); await step().
HoldPlans ==
  { <<Op("hold", "right", HoldTicks), Op("step", "", 0)>>,
    <<Op("tap", "right", 0), Op("step", "", 0), Op("step", "", 0)>> }

InitHold ==
  /\ maxFrames = BigBudget
  /\ goalX \in GoalXs
  /\ xRate = 1
  /\ \E ops \in HoldPlans : plan = [free |-> FALSE, left |-> 0, ops |-> ops]
  /\ preLeft = 0
  /\ emuFrame \in StartFrames
  /\ InitRest

NextHold ==
  \/ EmuTick
  \/ Host
  \/ RunChallenge
  \/ Finish
  \/ ExecuteCode
  \/ WorkerResponse
  \/ \E b \in Buttons : ScriptTap(b)
  \/ \E b \in Buttons : ScriptHold(b, HoldTicks)
  \/ ScriptStepFrames(HoldTicks)
  \/ StepFramesIter
  \/ ScriptStep
  \/ \E b \in Buttons : ScriptRelease(b)
  \/ ScriptReturn

SpecHold == InitHold /\ [][NextHold]_vars

\* A MemoryReader on any heap: a table with x of any type at the start of
\* work RAM or near the end of the heap, or with x and a second variable y
\* of a valid or an invalid type; the offset discovered or still 0.
ReaderBytes == {1, 128, 255}

ReaderHeaps ==
  {h \in [0 .. HeapLen - 1 -> ReaderBytes \cup {0}] :
     \A i \in DOMAIN h : h[i] = 0 <=> i >= 4}

ValidTypeSpecs ==
  {TypeSpecOf(e, sg, d) : e \in {">", "<", "|"}, sg \in {"u", "i"},
                          d \in {"1", "2", "4"}}

InvalidTypeSpecs ==
  { <<"u", "2">>, TypeSpecOf("=", "u", "2"), TypeSpecOf(">", "f", "4"),
    TypeSpecOf(">", "u", "9"), TypeSpecOf(">", "u", "x"),
    <<">", "u", "1", "6">> }

Tables ==
  { [n \in {"x"} |-> [address |-> ConsoleRamBase + a, type |-> ts]] :
      a \in {0, HeapLen - 2}, ts \in ValidTypeSpecs }
  \cup
  { [n \in {"x", "y"} |->
       IF n = "x" THEN [address |-> ConsoleRamBase, type |-> TypeSpecOf(">", "u", "2")]
       ELSE [address |-> ConsoleRamBase + 2, type |-> ts]] :
      ts \in InvalidTypeSpecs \cup {TypeSpecOf("<", "i", "2")} }

InitReader ==
  /\ maxFrames = BigBudget
  /\ goalX \in GoalXs
  /\ xRate = 1
  /\ plan = [free |-> FALSE, left |-> 0, ops |-> <<>>]
  /\ preLeft = 0
  /\ emuFrame = 0
  /\ InitControl
  /\ heap \in ReaderHeaps
  /\ cheat = 0
  /\ layout = [ramBase |-> 0, cheatCells |-> {LIVES_OFFSET}, noise |-> NoNoise]
  /\ disc = NoDisc
  /\ \E off \in {0, 0 - ConsoleRamBase}, info \in Tables :
       reader = [loaded |-> FALSE, memoryOffset |-> off, info |-> info,
                 out |-> NoOut]
  /\ found = <<>>

NextReader ==
  \/ LoadGame
  \/ \E name \in {"x", "y", "toString"} : GetVariable(name)
  \/ GetState

SpecReader == InitReader /\ [][NextReader]_vars

(* ------------------- the step protocol (C1 .. C4) ---------------------- *)

\* The session consumes a step response in this step.
StepCompletes == consumed' = consumed + 1

\* The step requests the worker has sent: the first id is the getState
\* request of executeCode.
StepRequestsSent == IF wMsgId = 0 THEN 0 ELSE wMsgId - 1

\* C1: the step responses reach the session in the order their requests
\* were sent (the response consumed answers the oldest request still
\* pending), and each carries a frameNumber strictly greater than the
\* frameNumber of the step response before it.
C1_InOrderIncreasing ==
  [][StepCompletes =>
       LET m == Head(toWorker)
       IN /\ \A p \in pending : p.kind # "init" => m.id <= p.id
          /\ consumed > 0 => m.frameNumber > wCur.frameNumber]_vars

\* C2: a handled step request advances the emulator by exactly one tick:
\* the frameNumber of its response is the frame number read before the
\* step plus 1.
C2_ExactlyOneTick ==
  [][\A t \in stepTasks :
       (t.owner = "sandbox" /\ t \notin stepTasks'
          /\ Len(toWorker') = Len(toWorker) + 1)
       => toWorker'[Len(toWorker')].frameNumber = t.before + 1]_vars

\* C3: game.frameNumber is 0 when a session starts, whatever the emulator's
\* frame; it grows by exactly 1 with each completed step and by exactly n
\* over a completed stepFrames(n); nothing else (press, release,
\* releaseAll, getVariable, getState) changes it.
C3_FrameNumber ==
  [][/\ (~wCur.live /\ wCur'.live) => FrameNumberGetter(wCur') = 0
     /\ (wCur.live /\ wCur'.live) =>
          FrameNumberGetter(wCur') =
            FrameNumberGetter(wCur) + (IF StepCompletes THEN 1 ELSE 0)
     /\ (wCur'.live /\ loop.n > 0 /\ loop' = NoLoop) =>
          FrameNumberGetter(wCur') = loop.base + loop.n]_vars

\* A stepFrames(LongSteps) has completed in a session that started at a
\* frame other than 0, after a press: frameNumber is LongSteps.
C3_Witness ==
  /\ wCur.live
  /\ Running
  /\ loop = NoLoop
  /\ FrameNumberGetter(wCur) = LongSteps
  /\ wCur.frameNumber > LongSteps
  /\ plan.left = 0

\* C4: framesExecuted never exceeds maxFrames, and no more than maxFrames
\* step requests are sent.
C4_WithinBudget ==
  /\ wCur.live => wCur.framesExecuted <= wCur.maxFrames
  /\ StepRequestsSent <= maxFrames


(* ------------------- the run's result (C5 .. C9) ----------------------- *)

C6_BudgetIsTimeout ==
  (result.set /\ execResult.error = BudgetError /\ ~goalMet) =>
    /\ result.status = "timeout"
    /\ result.framesUsed = maxFrames

C8_FirstMatchWins ==
  [][/\ goalMet => (goalMet' /\ goalFrame' = goalFrame)
     /\ (~goalMet /\ goalMet' /\ rcPc = "executing") =>
          (goalFrame' = emuFrame /\ ShouldSample(emuFrame))
     /\ (result'.set /\ result'.status = "success") =>
          result'.framesUsed = goalFrame']_vars

\* The goal, met at the first sampled tick, holds again at the next
\* sampled tick: goalFrame is still the first.
C8_Witness ==
  /\ hostExec
  /\ goalMet
  /\ goalFrame = SampleEvery
  /\ emuFrame = 2 * SampleEvery
  /\ toWorker # <<>>
  /\ toWorker[Len(toWorker)].frameNumber = emuFrame
  /\ Goal(Snapshot)

\* C9: on success framesUsed is at most the frames the script executed
\* and at most maxFrames, whatever the emulator's frame was at the start.
C9_FramesUsedBounded ==
  (result.set /\ result.status = "success") =>
    /\ result.framesUsed <= execResult.framesExecuted
    /\ result.framesUsed <= maxFrames

(* ------------------ lesson 1, the starter code (C10) ------------------- *)

\* Lesson 1 run with its starter code, on a game whose x starts at 0 and
\* grows by 5 with every frame right is held; memory discovered already, or
\* discovered by the run.
InitLesson ==
  /\ maxFrames = LessonMaxFrames
  /\ goalX = LessonGoalX
  /\ xRate = 5
  /\ plan = [free |-> FALSE, left |-> 0,
             ops |-> <<Op("press", "right", 0), Op("stepFrames", "", LessonSteps)>>]
  /\ preLeft \in {0, 3}
  /\ emuFrame \in StartFrames
  /\ InitRest

NextLesson ==
  \/ EmuTick
  \/ Host
  \/ Engine
  \/ Worker
  \/ ScriptPress("right")
  \/ ScriptStepFrames(LessonSteps)

SpecLesson == InitLesson /\ [][NextLesson]_vars

\* runChallenge returns its result in this step.
Resolves == ~result.set /\ result'.set

\* C10 as stated: the run resolves with status success and framesUsed = 101.
C10_SuccessAt101 ==
  result.set =>
    /\ result.status = "success"
    /\ result.framesUsed = LessonSteps + 1

\* C10 as amended: the script completes after exactly 100 frames.  With x
\* at 500 or less when it ends (every step one frame: x = 500) the run
\* resolves with status failure and framesUsed = 100; with x above 500 (the
\* main loop ran more than 100 frames) it resolves with status success, and
\* framesUsed is the sampled emulator frame, a multiple of 10, or 100.
C10_LessonOutcome ==
  [][Resolves =>
       /\ execResult.completed
       /\ execResult.framesExecuted = LessonSteps
       /\ IF emuX > LessonGoalX
          THEN /\ result'.status = "success"
               /\ \/ result'.framesUsed = LessonSteps
                  \/ ShouldSample(result'.framesUsed)
          ELSE /\ result'.status = "failure"
               /\ result'.framesUsed = LessonSteps]_vars

\* Every step ran one frame: x is 500 and the run is a failure at 100.
C10_Witness ==
  /\ result.set
  /\ emuX = LessonGoalX
  /\ emuInput = {}
  /\ execResult.framesExecuted = LessonSteps
  /\ result.status = "failure"
  /\ result.framesUsed = LessonSteps

(* ---------------- sessions and status (C11 .. C20) --------------------- *)

\* The second runChallenge call is made in this step.
SecondCall == run2.pc = "idle" /\ run2'.pc # "idle"

Terminal == {"success", "failure", "timeout", "error"}

\* C11: execute() called while currentExecution is set fails with 'Another
\* execution is already in progress'; the execution in progress keeps its
\* resolver and options, nothing is sent to the worker and the worker's
\* session is unchanged.
C11_OneExecution ==
  [][(SecondCall /\ hostExec) =>
       /\ run2'.result.error = InProgressError
       /\ hostExec' /\ ~run2'.execd
       /\ toWorker' = toWorker
       /\ wCur' = wCur /\ pending' = pending]_vars

\* execute() has failed for the second call while the first script's
\* session is live in the worker and its execution still pending.
C11_Witness ==
  /\ run2.result.error = InProgressError
  /\ hostExec
  /\ wCur.live
  /\ rcPc = "executing"

\* C12: a runChallenge call made while a run is active resolves with an
\* error result and changes neither the inputs, the simulation, nor the
\* status or the result of the run in progress.
C12_SecondRunFailsFast ==
  [][(SecondCall /\ status = "running" /\ rcPc \in {"executing", "settle"}) =>
       /\ run2'.result.set /\ run2'.result.status = "error"
       /\ status' = status
       /\ result' = result
       /\ heldButtons' = heldButtons /\ emuInput' = emuInput
       /\ emuFrame' = emuFrame /\ stepTasks' = stepTasks]_vars

\* C13: after stop() during a run the status is idle and stays idle until
\* the next runChallenge call begins.
C13_StoppedStaysIdle ==
  [][(calls.stop /\ status = "idle" /\ run2'.pc = "idle") =>
       status' = "idle"]_vars

\* The host takes up a step request in this step.
StepRequestHandled ==
  /\ toHost # <<>>
  /\ Head(toHost).type = "step"
  /\ toHost' = Tail(toHost)

\* The response to a step request resolves that request in the worker in
\* this step.
ResponseDelivered ==
  /\ toWorker # <<>>
  /\ Head(toWorker).type = "step"
  /\ toWorker' = Tail(toWorker)
  /\ \E p \in pending : /\ p.id = Head(toWorker).id
                        /\ p.kind \notin {"init", "init2"}
                        /\ p \notin pending'

\* The first script runs in this step.
FirstScriptActs == wPc' # wPc \/ plan' # plan

\* C14: after stop() the step requests and responses of the terminated
\* session still in flight are discarded: the host applies no inputs and
\* advances nothing for them, and no response reaches the script.
C14_InFlightDiscarded ==
  [][(calls.stop /\ run2.pc = "idle") =>
       /\ ~StepRequestHandled
       /\ ~ResponseDelivered]_vars

\* C15: after stop() and a new run, the terminated script changes nothing
\* of the new session, and the execute() of the new run is resolved by its
\* own script (which has settled by then), not by the terminated one.
C15_SessionsIsolated ==
  [][calls.stop =>
       /\ (w2Pc # "idle" /\ wCur.live /\ FirstScriptActs) => wCur' = wCur
       /\ (run2.pc = "executing" /\ run2'.pc = "settle"
             /\ toHost # <<>> /\ Head(toHost).type = "complete"
             /\ toHost' = Tail(toHost)) => w2Pc = "done"]_vars

\* C16: reset() in a terminal status leaves the status idle, no challenge
\* loaded, heldButtons empty, and every button that was held released.
C16_ResetReleases ==
  [][(~calls.reset /\ calls'.reset) =>
       /\ status' = "idle"
       /\ currentChallenge' = 0
       /\ heldButtons' = {}
       /\ emuInput' \cap heldButtons = {}]_vars

\* reset() was called while right was held, and right is released.
C16_Witness ==
  /\ calls.reset
  /\ calls.held = {"right"}
  /\ heldButtons = {}
  /\ "right" \notin emuInput
  /\ status = "idle"
  /\ currentChallenge = 0

\* C17: after stop() during a run, once the handlers of that session have
\* finished (no request queued or in progress, the script ended, the run
\* returned), the controller holds no button.
C17_NothingHeldAfterStop ==
  (/\ calls.stop /\ ~calls.reset
   /\ run2.pc = "idle"
   /\ toHost = <<>> /\ stepTasks = {} /\ toWorker = <<>>
   /\ wPc = "done" /\ rcPc = "done")
  => heldButtons = {}

\* C18: every runChallenge call eventually resolves with a ChallengeResult
\* and a terminal status, also when the host fails while it handles a step
\* request (stepFrame rejects because the frame did not advance).
C18_RunResolves ==
  (rcPc # "idle") ~> (rcPc = "done" /\ result.set /\ status \in Terminal)

\* The script raises an exception in this step.
ScriptRaises ==
  /\ wPc = "run"
  /\ plan # plan'
  /\ plan.ops # <<>>
  /\ \/ Head(plan.ops).op \in {"throw", "throwNull"}
     \/ Head(plan.ops).op = "getVariable"
          /\ Head(plan.ops).s \notin DOMAIN wCur.currentState

\* The host takes up the report of a failure in this step.
FailureHandled ==
  /\ toHost # <<>>
  /\ toHost' = Tail(toHost)
  /\ \/ Head(toHost).type = "error"
     \/ Head(toHost).type = "complete" /\ ~Head(toHost).result.completed

\* The worker's onerror fires in this step.
OnErrorFires == ~calls.onerror /\ calls'.onerror

\* C19: an exception of the script always reaches the host as a message
\* ('complete' with completed = false, or 'error') that carries the error
\* text; that message, and onerror, resolve the pending execute() with
\* completed = false and the message, and the promise is never rejected.
C19_ErrorsResolve ==
  [][/\ ScriptRaises =>
          /\ toHost' # <<>>
          /\ toHost' = Append(toHost, toHost'[Len(toHost')])
          /\ toHost'[Len(toHost')].type \in {"complete", "error"}
          /\ ~toHost'[Len(toHost')].result.completed
          /\ toHost'[Len(toHost')].result.error # ""
     /\ (FailureHandled /\ hostExec) =>
          /\ ~hostExec'
          /\ execResult'.set /\ ~execResult'.completed
          /\ execResult'.error = Head(toHost).result.error
     /\ (OnErrorFires /\ hostExec) =>
          /\ ~hostExec'
          /\ execResult'.set /\ ~execResult'.completed
          /\ execResult'.error = WorkerErrorMsg]_vars

\* throw null reached the host as an 'error' event and resolved execute.
C19_Witness ==
  /\ execResult.set
  /\ ~execResult.completed
  /\ execResult.error = TypeErrorMsg
  /\ ~hostExec
  /\ plan.ops = <<>>

\* stop() or reset() is called in this step.
StopOrReset == calls'.stop # calls.stop \/ calls'.reset # calls.reset

\* C20: the status changes only from idle to running, from running to a
\* terminal status, by stop or reset to idle, and from a terminal status to
\* running when a new run starts; never from idle or from a terminal status
\* to a (different) terminal status.
C20_StatusTransitions ==
  [][status' # status =>
       \/ status = "idle" /\ status' = "running"
       \/ status = "running" /\ status' \in Terminal
       \/ status' = "idle" /\ StopOrReset
       \/ status \in Terminal /\ status' = "running"]_vars

\* C21: at most one stepFrame call is in flight at any time: the host starts
\* no frame advance while an earlier one has not settled.
C21_OneAdvanceInFlight == Cardinality(stepTasks) <= 1

\* The host resolves an execute() in this step.
ExecuteResolves == ~execResult.set /\ execResult'.set

\* C28: the result that resolves an execution, one ended by terminate() or
\* by an 'error' event included, reports framesExecuted equal to the number
\* of step responses the session has consumed.
C28_FramesExecutedIsConsumed ==
  [][ExecuteResolves => execResult'.framesExecuted = consumed']_vars

\* The host takes up a state request in this step.
StateRequestHandled ==
  /\ toHost # <<>>
  /\ Head(toHost).type = "getState"
  /\ toHost' = Tail(toHost)

\* C29: handleStateRequest answers with the current frame number and
\* snapshot; it applies no input, advances no frame and leaves the held
\* buttons as they are.
C29_StateRequestReadsOnly ==
  [][StateRequestHandled =>
       /\ Len(toWorker') = Len(toWorker) + 1
       /\ toWorker' = Append(toWorker, toWorker'[Len(toWorker')])
       /\ toWorker'[Len(toWorker')].id = Head(toHost).id
       /\ toWorker'[Len(toWorker')].frameNumber = emuFrame
       /\ toWorker'[Len(toWorker')].state = Snapshot
       /\ emuFrame' = emuFrame /\ emuX' = emuX
       /\ emuInput' = emuInput /\ emuRunning' = emuRunning
       /\ heldButtons' = heldButtons
       /\ stepTasks' = stepTasks]_vars

\* The answer to the script's initial state request is on its way, taken at
\* emulator frame 10 with the emulator's x.
C29_Witness ==
  /\ toWorker # <<>>
  /\ Head(toWorker).type = "step"
  /\ \E p \in pending : p.kind = "init" /\ p.id = Head(toWorker).id
  /\ Head(toWorker).frameNumber = SampleEvery
  /\ emuFrame = SampleEvery
  /\ Head(toWorker).state = Snapshot

(* -------------------------- memory discovery --------------------------- *)

\* discoverWorkRamBase returns or throws in this step.
DiscoveryEnds == disc.pc = "clear" /\ disc'.pc = "done"

\* C22: a discovery that fails during runChallenge does not abort the run:
\* the script is executed, and the status of the result is the one the
\* script's result and the goal decide (error only for a script error).
C22_DiscoveryFailureNotFatal ==
  [][/\ (DiscoveryEnds /\ disc.caller = "engine" /\ ~found'[Len(found')].ok) =>
          /\ status' = "running"
          /\ rcPc' = "executing"
          /\ hostExec'
          /\ toWorker' # <<>> /\ toWorker'[Len(toWorker')].type = "execute"
     /\ (Resolves /\ found # <<>> /\ ~found[1].ok) =>
          /\ execResult.set
          /\ result'.status = DecideStatus(execResult, goalMet', maxFrames)
          /\ result'.status = "error" <=> execResult.error # ""]_vars

\* Discovery failed, the script ran its step and the run ended in failure.
C22_Witness ==
  /\ result.set
  /\ found # <<>> /\ ~found[1].ok
  /\ execResult.completed
  /\ execResult.framesExecuted = 1
  /\ result.status = "failure"

\* C23: with a stable layout (the game writes to no cell) discoveries in
\* succession have the same outcome: the same base.
C23_DiscoveryIdempotent ==
  layout.noise = NoNoise =>
    \A i \in 1 .. Len(found) : i > 1 => found[i] = found[i - 1]

\* Two discoveries with two matches each returned the same base.
C23_Witness ==
  /\ layout.noise = NoNoise
  /\ Len(found) = 2
  /\ found[1].ok /\ found[2].ok
  /\ found[2].base = found[1].base
  /\ Cardinality(disc.matches) = 2

\* The base would keep the 64KiB region inside the heap.
InBounds(pos) ==
  /\ pos - LIVES_OFFSET >= 0
  /\ pos - LIVES_OFFSET + RamLast < HeapLen

\* The survivor set: the positions that held the first marker after the
\* first marker frame and the second after the second, within bounds.
Survivors ==
  {pos \in 0 .. HeapLen - 1 : /\ disc.heap1[pos] = MARKER1
                              /\ disc.heap2[pos] = MARKER2
                              /\ InBounds(pos)}

\* C30: discoverWorkRamBase returns a base only from the survivor set, and
\* fails when that set is empty; the positions out of bounds are dropped
\* before phase 2.
C30_BaseFromSurvivors ==
  [][/\ DiscoveryEnds =>
          IF Survivors = {} THEN ~found'[Len(found')].ok
          ELSE /\ found'[Len(found')].ok
               /\ found'[Len(found')].base + LIVES_OFFSET \in Survivors
     /\ (disc.pc = "phase1" /\ disc'.pc = "phase2") =>
          \A pos \in disc'.marker1Positions : InBounds(pos)]_vars

\* A base was returned although the last byte of the heap held the first
\* marker and one candidate did not survive phase 2.
C30_Witness ==
  /\ disc.pc = "done"
  /\ found # <<>> /\ found[Len(found)].ok
  /\ disc.heap1[HeapLen - 1] = MARKER1
  /\ Cardinality(disc.marker1Positions) > Cardinality(disc.matches)
  /\ found[Len(found)].base + LIVES_OFFSET \in disc.matches

\* The survivor at pos has a plausible zone byte, as the heap is when the
\* choice is made.
ZonePasses(pos) == heap[pos - LIVES_OFFSET + ZONE_OFFSET] <= MaxZone

\* C31: of several survivors discovery returns the first, in ascending
\* order, whose zone byte is at most 20; a survivor that fails the test is
\* returned only when none passes, and it is the first survivor.
C31_PlausibleSurvivorFirst ==
  [][(DiscoveryEnds /\ disc.matches # {}) =>
       LET chosen == found'[Len(found')].base + LIVES_OFFSET
           passing == {m \in disc.matches : ZonePasses(m)}
       IN /\ found'[Len(found')].ok
          /\ chosen \in disc.matches
          /\ IF passing # {}
             THEN chosen \in passing /\ \A m \in passing : chosen <= m
             ELSE \A m \in disc.matches : chosen <= m]_vars

\* Two survivors, the first with an implausible zone byte: the second was
\* returned.
C31_Witness ==
  /\ disc.pc = "done"
  /\ found # <<>>
  /\ found[Len(found)].ok
  /\ Cardinality(disc.matches) = 2
  /\ \E first \in disc.matches :
       /\ first < found[Len(found)].base + LIVES_OFFSET
       /\ found[Len(found)].base + LIVES_OFFSET \in disc.matches
       /\ heap[first - LIVES_OFFSET + ZONE_OFFSET] > MaxZone

\* discoverWorkRamBase runs on from an await, or rejects, in this step.
DiscoveryActs == disc' # disc /\ disc.pc # "idle"

\* C33: when discovery returns a base, the byte at base + LIVES_OFFSET
\* holds the default 3 and is the only heap byte discovery wrote itself;
\* a discovery that fails writes no heap byte itself.
C33_OnlyLivesRestored ==
  [][DiscoveryActs =>
       IF disc'.pc = "done" /\ found'[Len(found')].ok
       THEN /\ heap'[found'[Len(found')].base + LIVES_OFFSET] = DEFAULT_LIVES
            /\ \A i \in DOMAIN heap :
                 i # found'[Len(found')].base + LIVES_OFFSET => heap'[i] = heap[i]
       ELSE heap' = heap]_vars

\* A base was returned: its lives byte holds 3 and its zone byte is still
\* what it was, above 20.
C33_Witness ==
  /\ disc.pc = "done"
  /\ found # <<>>
  /\ found[Len(found)].ok
  /\ heap[found[Len(found)].base + LIVES_OFFSET] = DEFAULT_LIVES
  /\ heap[found[Len(found)].base + ZONE_OFFSET] = MARKER1

\* C32: whenever discoverWorkRamBase has finished, with a base or with a
\* failure, no cheat that discovery set is still active.
C32_CheatCleared == disc.pc \in {"idle", "done"} => cheat = 0

\* A later runChallenge call starts in this step, memory having been
\* discovered by the first call.
LaterRunStarts ==
  /\ run2.pc = "idle"
  /\ run2'.pc # "idle"
  /\ found # <<>>
  /\ found[1].ok

\* C34: a run that follows a successful discovery on the same controller
\* skips discovery: it sets no marker cheat and starts no frame step for
\* discovery.
C34_DiscoveryRunsOnce ==
  [][LaterRunStarts =>
       /\ disc' = disc
       /\ cheat' = 0
       /\ stepTasks' \subseteq stepTasks]_vars

(* ------------------------------- inputs -------------------------------- *)

RECURSIVE HeldAfter(_, _)
\* The held set after the actions, folded in list order: press adds the
\* button, release removes it, releaseAll empties the set.
HeldAfter(actions, held) ==
  IF actions = <<>> THEN held
  ELSE HeldAfter(Tail(actions),
                 CASE Head(actions).action = "press" -> held \cup {Head(actions).button}
                   [] Head(actions).action = "release" -> held \ {Head(actions).button}
                   [] OTHER -> {})

RECURSIVE PressedAfter(_, _, _)
\* The buttons the emulator has pressed after the actions: each press and
\* each release is forwarded for its button, releaseAll releases the
\* buttons held at that point.
PressedAfter(actions, held, pressed) ==
  IF actions = <<>> THEN pressed
  ELSE PressedAfter(Tail(actions),
                    HeldAfter(<<Head(actions)>>, held),
                    CASE Head(actions).action = "press" -> pressed \cup {Head(actions).button}
                      [] Head(actions).action = "release" -> pressed \ {Head(actions).button}
                      [] OTHER -> pressed \ held)

\* C35: handleStepRequest applies the inputs of the request in list order
\* before the tick is advanced: the controller's held set is the fold of
\* the actions over the previous one, and the emulator has each press and
\* release as its input.
C35_InputsAppliedInOrder ==
  [][StepRequestHandled =>
       /\ heldButtons' = HeldAfter(Head(toHost).inputs, heldButtons)
       /\ emuInput' = PressedAfter(Head(toHost).inputs, heldButtons, emuInput)
       /\ emuFrame' = emuFrame
       /\ \E t \in stepTasks' : t \notin stepTasks /\ t.start = emuFrame]_vars

\* A request with press right, press a, release right was applied: a alone
\* is held and pressed, and the tick is advanced.
C35_Witness ==
  /\ heldButtons = {"a"}
  /\ emuInput = {"a"}
  /\ consumed = 1
  /\ emuFrame > 0

\* The script calls press, release or releaseAll in this step.
InputQueued ==
  /\ wCur.live
  /\ wCur'.live
  /\ Len(wCur'.inputQueue) = Len(wCur.inputQueue) + 1

\* A step request is built and posted in this step.
StepRequestBuilt ==
  /\ Len(toHost') = Len(toHost) + 1
  /\ toHost'[Len(toHost')].type = "step"

\* C36: press, release and releaseAll only append to the session's input
\* queue and change nothing on the host; the next step request carries the
\* whole queue in the order queued and leaves it empty, so each action
\* leaves with exactly one request.
C36_InputsQueuedUntilStep ==
  [][/\ InputQueued =>
          /\ SubSeq(wCur'.inputQueue, 1, Len(wCur.inputQueue)) = wCur.inputQueue
          /\ UNCHANGED <<heldButtons, emuInput, emuFrame, toHost, toWorker,
                         stepTasks>>
     /\ StepRequestBuilt =>
          /\ toHost'[Len(toHost')].inputs = wCur.inputQueue
          /\ wCur'.inputQueue = <<>>
     /\ (wCur.live /\ wCur'.live /\ ~InputQueued /\ ~StepRequestBuilt) =>
          wCur'.inputQueue = wCur.inputQueue]_vars

\* A request carrying three queued actions in order has been built, and
\* the queue is empty.
C36_Witness ==
  /\ toHost # <<>>
  /\ toHost[Len(toHost)].type = "step"
  /\ Len(toHost[Len(toHost)].inputs) = 3
  /\ toHost[Len(toHost)].inputs[1] = [action |-> "press", button |-> "right"]
  /\ toHost[Len(toHost)].inputs[3] = [action |-> "release", button |-> "right"]
  /\ wCur.inputQueue = <<>>
  /\ heldButtons = {}

\* The ticks of the hold in progress: the hold plan ends with the step
\* that carries the release, the tap plan has one more step after it.
HoldLength == IF plan.ops = <<>> THEN HoldTicks ELSE 1

\* The host applies the release that ends the hold in this step.
HoldReleased ==
  /\ StepRequestHandled
  /\ "right" \in emuInput
  /\ "right" \notin emuInput'

\* C37: for a script that awaits hold(right, n) (tap: n = 1) and then
\* steps, right is pressed on the host during exactly the n ticks of the
\* hold: from the press, applied before the first tick, the emulator runs
\* n frames with right pressed (x grows by xRate on each of them, from 0)
\* until the release is applied, before the following tick.
C37_HeldForNTicks ==
  [][HoldReleased =>
       /\ emuX = HoldLength * xRate
       /\ emuFrame' = emuFrame]_vars

\* Counted in handled step requests, the hold is n long: the release is
\* applied by the request after the n-th of the session.
HeldForNRequests ==
  [][HoldReleased => consumed = HoldLength]_vars

(* ------------------------------ stepFrame ------------------------------ *)

\* A stepFrame settles in this step, and its caller starts no other one.
StepFrameSettles ==
  /\ \E t \in stepTasks : t \notin stepTasks'
  /\ stepTasks' \subseteq stepTasks

\* C38: whenever stepFrame settles, by resolving after the frame advanced
\* or by rejecting after the poll limit, the main loop is paused and the
\* bridge's state is 'paused'.
C38_PausedWhenSettled ==
  [][StepFrameSettles => ~emuRunning']_vars

\* The stepFrame of a step request has resolved: its response is posted,
\* the main loop is paused.
C38_Witness ==
  /\ ~emuRunning
  /\ stepTasks = {}
  /\ wPc = "waitStep"
  /\ toWorker # <<>>
  /\ Head(toWorker).type = "step"
  /\ Head(toWorker).frameNumber > 0

(* --------------------------- the two workers --------------------------- *)

\* C39: the standalone worker module and the inline worker source behave
\* alike: wherever the script of a session runs, after the same requests
\* and the same responses, the two take the same decision on the next step
\* request (issue it, or fail with the budget error), would return the
\* same result (completed, framesExecuted, error), and show the script the
\* same frameNumber.
C39_WorkersAgree ==
  (wCur.live /\ wPc = "run") =>
    /\ ModuleBudgetExhausted(wCur) = BudgetExhausted(wCur)
    /\ ModuleFrameNumberGetter(wCur) = FrameNumberGetter(wCur)
    /\ ModuleCompletedResult(wCur) = CompletedResult(wCur)
    /\ ModuleFailedResult(wCur, ScriptError) = FailedResult(wCur, ScriptError)

(* ----------------------------- MemoryReader ---------------------------- *)

\* The bytes read, the most significant one first.
MostSignificantFirst(rawBytes, endian) ==
  IF endian = "little"
  THEN [k \in 1 .. Len(rawBytes) |-> rawBytes[Len(rawBytes) - k + 1]]
  ELSE rawBytes

\* The integer that 1, 2 or 4 bytes denote: unsigned, or in two's
\* complement.
Denoted(rawBytes, type) ==
  LET ms == MostSignificantFirst(rawBytes, type.endian)
      w == Len(ms)
      at(k) == IF k <= w THEN ms[w - k + 1] ELSE 0
      unsigned == Num(at(4) * 256 + at(3), at(2) * 256 + at(1))
  IN IF type.signed /\ ms[1] >= 128
     THEN CASE w = 1 -> Minus(unsigned, Num(0, 256))
            [] w = 2 -> Minus(unsigned, Num(1, 0))
            [] OTHER -> Minus(unsigned, Num(Half, 0))
     ELSE unsigned

\* The bytes the last getVariable call read.
BytesOfLastRead ==
  ReadMemoryBytes(heap,
                  reader.info[reader.out.name].address + reader.memoryOffset,
                  ParseTypeSpec(reader.info[reader.out.name].type).bytes)

\* C24: a variable of 1, 2 or 4 bytes, big- or little-endian, whose bytes
\* lie inside the heap is decoded to the integer its bytes denote: in
\* [0, 2^(8w)) if unsigned, in two's complement if signed.
C24_DecodesCorrectly ==
  (/\ reader.out.call = "getVariable"
   /\ reader.out.ok
   /\ reader.out.name \in DOMAIN reader.info
   /\ ParseTypeSpec(reader.info[reader.out.name].type).bytes \in {1, 2, 4}
   /\ \/ ParseTypeSpec(reader.info[reader.out.name].type).endian # "native"
      \/ ParseTypeSpec(reader.info[reader.out.name].type).bytes = 1
   /\ Len(BytesOfLastRead) = ParseTypeSpec(reader.info[reader.out.name].type).bytes)
  => reader.out.value = Denoted(BytesOfLastRead,
                                ParseTypeSpec(reader.info[reader.out.name].type))

\* getVariable is called in this step.
GetVariableCalled ==
  reader'.out # reader.out /\ reader'.out.call = "getVariable"

\* C25: getVariable fails with the not-loaded error when no table is
\* loaded and with the not-found error when the name is not in the loaded
\* table; in both cases it reads no memory and changes nothing.
C25_GetVariableErrors ==
  [][GetVariableCalled =>
       /\ ~reader.loaded =>
            /\ ~reader'.out.ok
            /\ reader'.out.error = NotLoadedError
            /\ reader'.out.reads = 0
       /\ (reader.loaded /\ reader'.out.name \notin DOMAIN reader.info) =>
            /\ ~reader'.out.ok
            /\ reader'.out.error = ReaderNotFound
            /\ reader'.out.reads = 0
       /\ [reader' EXCEPT !.out = reader.out] = reader
       /\ heap' = heap]_vars

\* getState is called in this step.
GetStateCalled ==
  reader'.out # reader.out /\ reader'.out.call = "getState"

StrayResponseTaken ==
  /\ toWorker # <<>>
  /\ Head(toWorker).type = "step"
  /\ {p \in pending : p.id = Head(toWorker).id} = {}
  /\ toWorker' = Tail(toWorker)
  /\ wCur.live

\* C27: a step or state response whose id matches no pending request is
\* fatal to the session: the worker ends the execution with an error,
\* which it reports to the host.
C27_UnmatchedResponseFatal ==
  [][StrayResponseTaken =>
       /\ Len(toHost') = Len(toHost) + 1
       /\ toHost'[Len(toHost')].type \in {"error", "complete"}
       /\ toHost'[Len(toHost')].result.error # ""]_vars

====
